---- MODULE Spec2Model ----
(***************************************************************************)
(* Retrieval engine of the solar-panel RAG service: the character chunker, *)
(* the hashed embedding, the two vector stores, the ingestion guard and    *)
(* the context formatter.  A text is a sequence of one-character strings,  *)
(* a vector component is a fixed-point number with Scale units to 1.0 and  *)
(* a score one with Unit units to 1.0.  Positions are 0-based as in the    *)
(* Python source; SubSeq converts at the point of use.                     *)
(***************************************************************************)
EXTENDS Integers, Sequences, FiniteSets, TLC

\* ---------------------------------------------------------------- bounds
MaxLen == 4        \* longest input text given to chunk_text
MaxSize == 3       \* largest chunk_size tried
MaxOverlap == 3    \* largest chunk_overlap tried

Alphabet == {"a", "b", " ", "\n"}

Max(a, b) == IF a >= b THEN a ELSE b
Min(a, b) == IF a <= b THEN a ELSE b

RECURSIVE SeqsUpTo(_, _)
SeqsUpTo(S, n) ==
    IF n = 0 THEN {<<>>}
    ELSE LET shorter == SeqsUpTo(S, n - 1)
         IN  shorter \cup {Append(s, c) : s \in {t \in shorter : Len(t) = n - 1}, c \in S}

\* ------------------------------------------------------- str primitives
IsSpace(c) == c \in {" ", "\n"}

\* number of leading / trailing whitespace characters of s
RECURSIVE LeadSpaces(_)
LeadSpaces(s) ==
    IF s = <<>> \/ ~IsSpace(Head(s)) THEN 0 ELSE 1 + LeadSpaces(Tail(s))

RECURSIVE TrailSpaces(_)
TrailSpaces(s) ==
    IF s = <<>> \/ ~IsSpace(s[Len(s)]) THEN 0
    ELSE 1 + TrailSpaces(SubSeq(s, 1, Len(s) - 1))

\* str.rstrip() and str.strip()
RStrip(s) == SubSeq(s, 1, Len(s) - TrailSpaces(s))
Strip(s) == LET r == RStrip(s) IN SubSeq(r, LeadSpaces(r) + 1, Len(r))

\* str.splitlines(): a trailing line break opens no further line
RECURSIVE SplitLines(_)
SplitLines(s) ==
    IF s = <<>> THEN <<>>
    ELSE LET brk == {i \in 1..Len(s) : s[i] = "\n"}
         IN  IF brk = {} THEN <<s>>
             ELSE LET i == CHOOSE j \in brk : \A m \in brk : j <= m
                  IN  <<SubSeq(s, 1, i - 1)>> \o SplitLines(SubSeq(s, i + 1, Len(s)))

\* "\n".join(lines)
RECURSIVE JoinLines(_)
JoinLines(lines) ==
    IF lines = <<>> THEN <<>>
    ELSE IF Len(lines) = 1 THEN lines[1]
    ELSE lines[1] \o <<"\n">> \o JoinLines(Tail(lines))

\* ------------------------------------------------------------ chunk_text
\* chunking.py:16
Clean(t) ==
    LET lines == SplitLines(t)
    IN  Strip(JoinLines([i \in 1..Len(lines) |-> RStrip(lines[i])]))

\* chunking.py:23
WindowEnd(cl, st, size) == Min(Len(cl), st + size)

\* chunking.py:24, cleaned[start:end]
Window(cl, st, en) == SubSeq(cl, st + 1, en)

\* chunking.py:29, the start of the next window: off by one either way, with the
\* overlap left out, then as written
NextStartSkipsOne(en, overlap) == Max(0, en + 1 - overlap)
NextStartOneMore(en, overlap) == Max(0, en - overlap - 1)
NextStartNoOverlap(en, overlap) == Max(0, en)
NextStart(en, overlap) == Max(0, en - overlap)

\* chunk_text as a function: the list it returns (the loop of chunking.py:22-29
\* run to its end; used where the caller passes chunk_size > chunk_overlap)
RECURSIVE ChunkFrom(_, _, _, _)
ChunkFrom(cl, st, size, overlap) ==
    IF st >= Len(cl) THEN <<>>
    ELSE LET en == WindowEnd(cl, st, size)
             chunk == Strip(Window(cl, st, en))
             here == IF chunk # <<>> THEN <<chunk>> ELSE <<>>
         IN  IF en = Len(cl) THEN here
             ELSE here \o ChunkFrom(cl, NextStart(en, overlap), size, overlap)

ChunkText(t, size, overlap) ==
    IF Clean(t) = <<>> THEN <<>> ELSE ChunkFrom(Clean(t), 0, size, overlap)

\* ------------------------------------------------------- EmbeddingModel
Dim == 384
HashMul == 131
Scale == 1000      \* fixed point: a vector component has Scale units to 1.0
Unit == Scale * Scale  \* a product of two components, a distance and a score
                       \* have Unit units to 1.0
HalfWord == 65536  \* h is a 32-bit word, held as two 16-bit halves <<high, low>>

LowerCase == <<"a", "b", "c", "d", "e", "f", "g", "h", "i", "j", "k", "l", "m",
               "n", "o", "p", "q", "r", "s", "t", "u", "v", "w", "x", "y", "z">>
UpperCase == <<"A", "B", "C", "D", "E", "F", "G", "H", "I", "J", "K", "L", "M",
               "N", "O", "P", "Q", "R", "S", "T", "U", "V", "W", "X", "Y", "Z">>
Digits == <<"0", "1", "2", "3", "4", "5", "6", "7", "8", "9">>

IndexIn(seq, c) == CHOOSE i \in 1..Len(seq) : seq[i] = c
InSeq(seq, c) == \E i \in 1..Len(seq) : seq[i] = c

\* str.lower() on one character
Lower(c) == IF InSeq(UpperCase, c) THEN LowerCase[IndexIn(UpperCase, c)] ELSE c

\* the character class [a-z0-9_\-/] of embeddings.py:28
IsTokenChar(c) == InSeq(LowerCase, c) \/ InSeq(Digits, c) \/ c \in {"_", "-", "/"}

\* ord() of a token character
Ord(c) ==
    IF InSeq(LowerCase, c) THEN 96 + IndexIn(LowerCase, c)
    ELSE IF InSeq(Digits, c) THEN 47 + IndexIn(Digits, c)
    ELSE IF c = "_" THEN 95
    ELSE IF c = "-" THEN 45
    ELSE 47

\* ------------------------------------------------------- query building
\* Python's None and a list, told apart by a tag: Optional[List[...]]
None == [given |-> FALSE, items |-> <<>>]
Some(items) == [given |-> TRUE, items |-> items]

\* str(None)
NoneText == <<"N", "o", "n", "e">>

\* str() of an optional text
StrOf(v) == IF v.given THEN v.items ELSE NoneText

\* the decimal digits of n, most significant first
RECURSIVE DigitsOf(_)
DigitsOf(n) == IF n < 10 THEN <<Digits[n + 1]>> ELSE Append(DigitsOf(n \div 10), Digits[(n % 10) + 1])

\* the digits after the point of a float given in Scale units: no trailing zero,
\* at least one digit
RECURSIVE FractionOf(_, _)
FractionOf(frac, unit) ==
    IF frac = 0 \/ unit = 1 THEN <<>>
    ELSE <<Digits[((frac * 10) \div unit) + 1]>> \o FractionOf((frac * 10) % unit, unit)

\* str() of a float between 0 and 1 given in Scale units: 920 is 0.92, 1000 is 1.0
Repr(x) ==
    LET frac == FractionOf(x % Scale, Scale)
    IN  DigitsOf(x \div Scale) \o <<".">> \o (IF frac = <<>> THEN <<"0">> ELSE frac)

\* str() of an optional float
StrOfFloat(v) == IF v.given THEN Repr(v.items) ELSE NoneText

\* sep.join(items)
RECURSIVE Join(_, _)
Join(sep, items) ==
    IF items = <<>> THEN <<>>
    ELSE IF Len(items) = 1 THEN items[1]
    ELSE items[1] \o sep \o Join(sep, Tail(items))

\* query.py:30-32: one "label (score)" per entry of top_predictions that is a dict
RECURSIVE TopEntries(_)
TopEntries(top_predictions) ==
    IF top_predictions = <<>> THEN <<>>
    ELSE LET p == Head(top_predictions)
         IN  (IF p.isdict
              THEN <<StrOf(p.label) \o <<" ", "(">> \o StrOfFloat(p.score) \o <<")">>>>
              ELSE <<>>) \o TopEntries(Tail(top_predictions))

DomainTag ==
    <<"s", "o", "l", "a", "r", " ", "p", "a", "n", "e", "l", " ", "d", "e", "f", "e",
      "c", "t", " ", "k", "n", "o", "w", "l", "e", "d", "g", "e">>
PrimaryDefectField ==
    <<"p", "r", "i", "m", "a", "r", "y", "_", "d", "e", "f", "e", "c", "t", ":", " ">>
ConfidenceField ==
    <<"c", "o", "n", "f", "i", "d", "e", "n", "c", "e", ":", " ">>
TopPredictionsField ==
    <<"t", "o", "p", "_", "p", "r", "e", "d", "i", "c", "t", "i", "o", "n", "s", ":",
      " ">>
PanelIdField ==
    <<"p", "a", "n", "e", "l", "_", "i", "d", ":", " ">>
BoostPhrases ==
    <<
      <<"i", "m", "p", "a", "c", "t", " ", "a", "n", "d", " ", "r", "i", "s", "k">>,
      <<"m", "a", "i", "n", "t", "e", "n", "a", "n", "c", "e", " ", "S", "O", "P">>,
      <<"d", "e", "c", "i", "s", "i", "o", "n", " ", "t", "h", "r", "e", "s", "h", "o",
        "l", "d", "s">>,
      <<"c", "l", "e", "a", "n", "i", "n", "g", " ", "i", "s", "o", "l", "a", "t", "i",
        "o", "n", " ", "r", "e", "p", "l", "a", "c", "e", "m", "e", "n", "t", " ", "c",
        "r", "i", "t", "e", "r", "i", "a">>
    >>

\* the panel_id part whatever panel_id is, then as written (query.py:39-40): only
\* when panel_id is not None
PanelPartAlways(panel_id) == <<PanelIdField \o StrOf(panel_id)>>
PanelPart(panel_id) == IF panel_id.given THEN <<PanelIdField \o panel_id.items>> ELSE <<>>

\* query.py:9-51: the verdict's fields are None (or absent) or given
BuildQueryFromMlOutput(model_output) ==
    LET panel_id == model_output.panel_id
        primary_defect == model_output.primary_defect
        confidence == model_output.confidence
        top_predictions == IF model_output.top_predictions.given
                           THEN model_output.top_predictions.items ELSE <<>>
        top_str == Join(<<",", " ">>, TopEntries(top_predictions))
        parts == <<DomainTag,
                   PrimaryDefectField \o StrOf(primary_defect),
                   ConfidenceField \o StrOfFloat(confidence),
                   TopPredictionsField \o top_str>>
                 \o PanelPart(panel_id)
                 \o BoostPhrases
    IN  JoinLines(parts)

\* the verdicts of the classifier: no field given, and a full verdict for "b"
NoVerdict == [panel_id |-> None, primary_defect |-> None, confidence |-> None, top_predictions |-> None]
VerdictB ==
    [panel_id |-> Some(<<"p", "1">>), primary_defect |-> Some(<<"b">>), confidence |-> Some(920),
     top_predictions |-> Some(<<[isdict |-> TRUE, label |-> Some(<<"b">>), score |-> Some(920)],
                                [isdict |-> FALSE, label |-> None, score |-> None]>>)]
ModelOutputs == {NoVerdict, VerdictB}

\* the documents and the verdict of the end-to-end scenario and of the round trip
DocClean ==
    [text |-> <<"C", "l", "e", "a", "n", " ", "p", "a", "n", "e", "l", "s", " ", "r", "e",
                "q", "u", "i", "r", "e", " ", "n", "o", " ", "a", "c", "t", "i", "o", "n",
                ".">>,
     source |-> <<"s", "o", "p", "_", "c", "l", "e", "a", "n", ".", "t", "x", "t">>]
DocElectrical ==
    [text |-> <<"E", "l", "e", "c", "t", "r", "i", "c", "a", "l", " ", "d", "a", "m", "a",
                "g", "e", " ", "r", "e", "q", "u", "i", "r", "e", "s", " ", "i", "s", "o",
                "l", "a", "t", "i", "o", "n", ".">>,
     source |-> <<"s", "o", "p", "_", "e", "l", "e", "c", "t", "r", "i", "c", "a", "l", ".",
                  "t", "x", "t">>]
DocUpper == [text |-> <<"A", " ", "B", " ", "C">>, source |-> <<"x">>]
DocLower == [text |-> <<"a", " ", "b", " ", "c">>, source |-> <<"y">>]
ScenarioDocuments == {DocClean, DocElectrical, DocUpper, DocLower}
ElectricalDamage ==
    <<"E", "l", "e", "c", "t", "r", "i", "c", "a", "l", "-", "d", "a", "m", "a", "g", "e">>
VerdictElectrical ==
    [panel_id |-> None, primary_defect |-> Some(ElectricalDamage), confidence |-> Some(920),
     top_predictions |-> Some(<<[isdict |-> TRUE, label |-> Some(ElectricalDamage),
                                 score |-> Some(920)]>>)]
ScenarioVerdicts == {VerdictElectrical, NoVerdict}

\* the texts stored and the queries searched
Repeated == <<"a", " ", "b", " ", "c", " ", "d", " ", "d">>
SampleTexts == {<<"a">>, Repeated, <<>>}
Queries == {<<"a">>, <<"a", " ", "a", " ", "b">>, Repeated, <<>>}

\* the function f on 1..n as the sequence of its values
Tuple(f) == <<>> \o f

\* the members of the set of integers S in increasing order: the k-th has k - 1
\* members below it
Ascending(S) ==
    LET below == {<<Cardinality({y \in S : y < x}), x>> : x \in S}
    IN  Tuple([k \in 1..Cardinality(S) |-> (CHOOSE p \in below : p[1] = k - 1)[2]])

\* re.findall(r"[a-z0-9_\-/]+", t.lower()): the maximal runs of token characters,
\* from left to right
FindTokens(t) ==
    LET low == Tuple([i \in 1..Len(t) |-> Lower(t[i])])
        tok == {i \in 1..Len(t) : IsTokenChar(low[i])}
        first == Ascending({i \in tok : (i - 1) \notin tok})
        last == Ascending({i \in tok : (i + 1) \notin tok})
    IN  Tuple([n \in 1..Len(first) |-> SubSeq(low, first[n], last[n])])

\* embeddings.py:33, h = (h * 131 + ord(ch)) & 0xFFFFFFFF on the two halves
HashStep(h, c) ==
    LET low == h[2] * HashMul + Ord(c)
    IN  <<(h[1] * HashMul + low \div HalfWord) % HalfWord, low % HalfWord>>

\* embeddings.py:31-33; h is never <<>>: the second test has the word worked
\* out at each character, as the loop does, rather than at the end of the token
RECURSIVE TokenHash(_, _)
TokenHash(tok, h) ==
    IF tok = <<>> \/ h = <<>> THEN h ELSE TokenHash(Tail(tok), HashStep(h, Head(tok)))

\* embeddings.py:34, h % self.dim
Bucket(tok) ==
    LET h == TokenHash(tok, <<0, 0>>)
    IN  ((h[1] % Dim) * (HalfWord % Dim) + h[2]) % Dim

\* the row of mat before normalisation, kept sparse: <<bucket, count>> for the
\* buckets hit (embeddings.py:35, mat[i, idx] += 1.0 for each token)
CountTokens(toks) ==
    IF toks = <<>> THEN <<>> ELSE
    LET idx == Tuple([n \in 1..Len(toks) |-> Bucket(toks[n])])
        hit == Ascending({idx[n] : n \in 1..Len(toks)})
    IN  Tuple([j \in 1..Len(hit) |->
                  <<hit[j], Cardinality({n \in 1..Len(toks) : idx[n] = hit[j]})>>])

\* the sum of the numbers ns, half by half
RECURSIVE SumSeq(_)
SumSeq(ns) ==
    IF ns = <<>> THEN 0
    ELSE IF Len(ns) = 1 THEN ns[1]
    ELSE LET half == Len(ns) \div 2
         IN  SumSeq(SubSeq(ns, 1, half)) + SumSeq(SubSeq(ns, half + 1, Len(ns)))

\* floor of the square root, by bisection on lo..hi
RECURSIVE SqrtIn(_, _, _)
SqrtIn(n, lo, hi) ==
    IF lo >= hi THEN lo
    ELSE LET mid == (lo + hi + 1) \div 2
         IN  IF mid * mid <= n THEN SqrtIn(n, mid, hi) ELSE SqrtIn(n, lo, mid - 1)
\* 46340 * 46340 is the largest square of 31 bits
ISqrt(n) == SqrtIn(n, 0, Min(n, 46340))

\* embeddings.py:36-38: np.linalg.norm of a row, in Scale units; a zero norm becomes 1.0
RowNorm(row) ==
    LET n == ISqrt(SumSeq(Tuple([i \in 1..Len(row) |-> row[i][2] * row[i][2]])) * Scale * Scale)
    IN  IF n = 0 THEN Scale ELSE n

\* embeddings.py:26-34: the row of one text, as its nonzero <<bucket, count>> pairs
Row(t) == IF t = <<>> THEN <<>> ELSE CountTokens(FindTokens(t))

RECURSIVE Flatten(_)
Flatten(rows) == IF rows = <<>> THEN <<>> ELSE Head(rows) \o Flatten(Tail(rows))

\* embeddings.py:36-37: one norm for the whole matrix, then as written: one norm
\* for each row (axis=1)
NormsOverBatch(rows) == Tuple([i \in 1..Len(rows) |-> RowNorm(Flatten(rows))])
Norms(rows) == Tuple([i \in 1..Len(rows) |-> RowNorm(rows[i])])

\* embeddings.py:20-39 on a batch: for each text a vector of dimension Dim, as
\* the set of its nonzero components <<bucket, value>> (value in Scale units)
Normalize(row, norm) ==
    {<<row[j][1], (row[j][2] * Scale * Scale) \div norm>> : j \in 1..Len(row)}
EmbedBatch(texts) ==
    IF texts = <<>> THEN <<>>
    ELSE LET rows == Tuple([i \in 1..Len(texts) |-> Row(texts[i])])
             norms == Norms(rows)
         IN  Tuple([i \in 1..Len(texts) |-> Normalize(rows[i], norms[i])])

\* embed_texts on a batch of one text
Embedding(t) == EmbedBatch(<<t>>)[1]

\* the vectors of the sample texts and queries, computed once
SampleEmbeddings ==
    {<<t, Embedding(t)>> :
        t \in SampleTexts \cup Queries \cup {d.text : d \in ScenarioDocuments}
                 \cup {BuildQueryFromMlOutput(m) : m \in ModelOutputs \cup ScenarioVerdicts}}

\* the vector of one text of a batch: the stores embed text by text, the vector
\* of a text being the same in every batch (EmbedLog below)
EmbedText(t) ==
    IF \E e \in SampleEmbeddings : e[1] = t
    THEN (CHOOSE e \in SampleEmbeddings : e[1] = t)[2]
    ELSE Embedding(t)

\* embed_texts as the stores call it
EmbedTexts(texts) == Tuple([i \in 1..Len(texts) |-> EmbedText(texts[i])])

Component(v, b) == IF \E e \in v : e[1] = b THEN (CHOOSE e \in v : e[1] = b)[2] ELSE 0
Buckets(v) == {e[1] : e \in v}

\* sum over the set of buckets bs of the values term[b]
SumOver(bs, term) ==
    LET order == Ascending(bs)
    IN  SumSeq(Tuple([j \in 1..Len(order) |-> term[order[j]]]))

\* IndexFlatIP's score: the inner product of two vectors, in Unit units.  Each
\* component carries the rounding of its division by the norm, so that the
\* product of a normalised vector with itself need not be Unit
InnerProduct(u, v) ==
    LET bs == Buckets(u) \cup Buckets(v)
    IN  SumOver(bs, [b \in bs |-> Component(u, b) * Component(v, b)])
\* the collection's default distance: the squared L2 distance of two vectors,
\* in Unit units
L2Distance(u, v) ==
    LET bs == Buckets(u) \cup Buckets(v)
    IN  SumOver(bs, [b \in bs |-> (Component(u, b) - Component(v, b))
                                      * (Component(u, b) - Component(v, b))])

VARIABLES
    text, chunk_size, chunk_overlap,  \* chunk_text: the arguments
    cleaned, start, chunks,           \* chunk_text: its locals
    wins,                             \* for each returned chunk, the window it was cut from
    cpc                               \* chunk_text: "idle", "call", "loop", "done"

chunkVars == <<text, chunk_size, chunk_overlap, cleaned, start, chunks, wins, cpc>>

\* The loop runs at most Len(cleaned) times when it advances; a run that does
\* not advance is followed this far and no further.
MaxIter == MaxLen + 2

ChunkIdle ==
    /\ text = <<>> /\ chunk_size = 0 /\ chunk_overlap = 0
    /\ cleaned = <<>> /\ start = 0 /\ chunks = <<>> /\ wins = <<>>
    /\ cpc = "idle"

ChunkInit ==
    /\ text \in SeqsUpTo(Alphabet, MaxLen)
    /\ chunk_size \in 1..MaxSize
    /\ chunk_overlap \in 0..MaxOverlap
    /\ cleaned = <<>> /\ start = 0 /\ chunks = <<>> /\ wins = <<>>
    /\ cpc = "call"

\* chunking.py:16-21
ChunkEnter ==
    /\ cpc = "call"
    /\ cleaned' = Clean(text)
    /\ cpc' = IF Clean(text) = <<>> THEN "done" ELSE "loop"
    /\ start' = 0 /\ chunks' = <<>> /\ wins' = <<>>
    /\ UNCHANGED <<text, chunk_size, chunk_overlap>>

\* chunking.py:22-29, one pass through the while loop
ChunkIter ==
    /\ cpc = "loop"
    /\ Len(chunks) < MaxIter
    /\ IF start < Len(cleaned)
       THEN LET end == WindowEnd(cleaned, start, chunk_size)
                win == Window(cleaned, start, end)
                chunk == Strip(win)
                lo == start + LeadSpaces(RStrip(win))
            IN  /\ IF chunk # <<>>
                   THEN /\ chunks' = Append(chunks, chunk)
                        /\ wins' = Append(wins, [ws |-> start, we |-> end,
                                                 lo |-> lo, hi |-> lo + Len(chunk)])
                   ELSE UNCHANGED <<chunks, wins>>
                /\ IF end = Len(cleaned)
                   THEN cpc' = "done" /\ start' = start
                   ELSE cpc' = "loop" /\ start' = NextStart(end, chunk_overlap)
       ELSE cpc' = "done" /\ UNCHANGED <<start, chunks, wins>>
    /\ UNCHANGED <<text, chunk_size, chunk_overlap, cleaned>>

\* ------------------------------------------------------ chunk_text properties
NonSpacePositions == {p \in 0..(Len(cleaned) - 1) : ~IsSpace(cleaned[p + 1])}
AllPositions == 0..(Len(cleaned) - 1)
Covered(p) == \E i \in 1..Len(wins) : wins[i].lo <= p /\ p < wins[i].hi

Suffix(s, n) == SubSeq(s, Max(1, Len(s) - n + 1), Len(s))
Prefix(s, n) == SubSeq(s, 1, Min(n, Len(s)))

\* the number of positions of cleaned that chunks i and i+1 both hold
Shared(i) == Max(0, wins[i].hi - wins[i + 1].lo)
SharesOverlap(i) ==
    /\ Shared(i) = chunk_overlap
    /\ Suffix(chunks[i], chunk_overlap) = Prefix(chunks[i + 1], chunk_overlap)
\* trimming removed nothing where chunk i's window meets chunk i+1's
FacingEdgesUntrimmed(i) == wins[i].hi = wins[i].we /\ wins[i + 1].lo = wins[i + 1].ws

\* C6: every pass of the loop that does not end it advances start by at least 1,
\* for every chunk_size >= 1 and chunk_overlap >= 0.
C6_LoopAdvances ==
    [][(cpc = "loop" /\ cpc' = "loop") => start' >= start + 1]_chunkVars

\* C7, as stated: with chunk_size > chunk_overlap every position of the cleaned
\* text, whitespace at a window edge included, lies in a returned chunk.
C7_EveryPositionCovered ==
    (cpc = "done" /\ chunk_size > chunk_overlap) => \A p \in AllPositions : Covered(p)

\* C7, amended: with chunk_size > chunk_overlap every non-whitespace position of
\* the cleaned text lies in a returned chunk.
C7_NonSpaceCovered ==
    (cpc = "done" /\ chunk_size > chunk_overlap) => \A p \in NonSpacePositions : Covered(p)

C7_Witness ==
    /\ cpc = "done" /\ chunk_size > chunk_overlap /\ chunk_overlap = 0
    /\ Len(chunks) >= 2
    /\ \E p \in AllPositions : ~Covered(p)

\* C8, as stated: with chunk_size > chunk_overlap the last chunk_overlap characters
\* of each chunk are the first chunk_overlap characters of the next, except
\* possibly for the last pair.
C8_ConsecutiveShareOverlap ==
    (cpc = "done" /\ chunk_size > chunk_overlap)
        => \A i \in 1..(Len(chunks) - 2) :
               Suffix(chunks[i], chunk_overlap) = Prefix(chunks[i + 1], chunk_overlap)

\* C8, amended: with chunk_size > chunk_overlap consecutive chunks share exactly
\* chunk_overlap positions of the cleaned text, the last chunk_overlap characters
\* of the first being the first chunk_overlap characters of the second, wherever
\* trimming took nothing from the end of the first chunk's window or from the
\* start of the second's (the last pair too).
C8_UntrimmedShareOverlap ==
    (cpc = "done" /\ chunk_size > chunk_overlap)
        => \A i \in 1..(Len(chunks) - 1) : FacingEdgesUntrimmed(i) => SharesOverlap(i)

C8_Witness ==
    /\ cpc = "done" /\ chunk_size > chunk_overlap /\ chunk_overlap >= 1
    /\ Len(chunks) >= 3
    /\ \E i \in 1..(Len(chunks) - 1) : FacingEdgesUntrimmed(i) /\ SharesOverlap(i)
    /\ \E i \in 1..(Len(chunks) - 1) : ~FacingEdgesUntrimmed(i)

\* the distance between the starts of two windows
Stride == chunk_size - chunk_overlap

\* the chunks returned so far: none empty, none with a space at either end, none
\* longer than chunk_size
ChunksTrimmed ==
    \A i \in 1..Len(chunks) :
        /\ chunks[i] # <<>>
        /\ ~IsSpace(chunks[i][1]) /\ ~IsSpace(chunks[i][Len(chunks[i])])
        /\ Len(chunks[i]) <= chunk_size

ChunkShape ==
    chunk_size > chunk_overlap =>
        /\ start % Stride = 0
        /\ \A i \in 1..Len(wins) : wins[i].ws % Stride = 0
        /\ ChunksTrimmed
        /\ (cpc = "done" /\ cleaned = <<>>) => chunks = <<>>

\* one pass of the loop: the window starts inside the text, the loop ends with
\* the window that ends where the text ends and with no window before it, and
\* the next window starts Stride further
ChunkSteps ==
    (chunk_size > chunk_overlap /\ cpc = "loop") =>
        /\ start < Len(cleaned)
        /\ cpc' = "done" <=> Min(Len(cleaned), start + chunk_size) = Len(cleaned)
        /\ cpc' = "loop" => start' = start + Stride

\* C27: with chunk_size > chunk_overlap >= 0 the windows start at the multiples
\* of chunk_size - chunk_overlap, the loop stops at the first window that ends at
\* the end of the cleaned text, every chunk returned is non-empty, trimmed and at
\* most chunk_size long, and a text that is empty once cleaned gives no chunk.
C27_WindowsEveryStride == []ChunkShape /\ [][ChunkSteps]_chunkVars

C27_Witness ==
    /\ cpc = "done" /\ chunk_overlap >= 1 /\ chunk_size > chunk_overlap
    /\ start = 2 * Stride /\ start + chunk_size >= Len(cleaned)
    /\ Len(chunks) = 2 /\ Len(wins) = 2 /\ wins[2].ws = start

\* ------------------------------------------------------------ the stores
VARIABLES
    _collection,   \* ChromaVectorStore: the collection's entries, in insertion order
    _docs,         \* FaissVectorStore._docs
    _index,        \* FaissVectorStore._index: None, or the vectors of the flat index
    disk,          \* persist_dir of the flat store: index.faiss and docs.jsonl
    backend,       \* the store the process was built with: "faiss" or "chroma"
    req,           \* the last call on the store: the method, its arguments, the chunks
                   \* the store held and what the library answered
    retrieved      \* what the last call gave back, or the exception it raised

storeVars == <<_collection, _docs, _index, disk, backend, req, retrieved>>

\* what a call gives back: its value, or the exception it raised
Returned(v) == [raised |-> "none", value |-> v]
Raised(e, v) == [raised |-> e, value |-> v]

NoFiles == [index |-> None, docs |-> None]
NoRequest ==
    [op |-> "none", query |-> <<>>, k |-> 0, held |-> 0, raw |-> <<>>,
     texts |-> <<>>, metadatas |-> None, embeds |-> 0]
\* add_texts(texts, ...) on a store holding held chunks; embeds counts the calls
\* of embed_texts that add_texts made
AddRequest(held, texts, metadatas, embeds) ==
    [NoRequest EXCEPT !.op = "add_texts", !.held = held, !.texts = texts,
                      !.metadatas = metadatas, !.embeds = embeds]
SearchRequest(query, k, held, raw) ==
    [NoRequest EXCEPT !.op = "similarity_search", !.query = query, !.k = k,
                      !.held = held, !.raw = raw]

StoresEmpty ==
    /\ _collection = <<>> /\ _docs = <<>> /\ _index = None /\ disk = NoFiles
    /\ req = NoRequest /\ retrieved = Returned(<<>>)

StoresIdle == StoresEmpty /\ backend = "chroma"

\* chroma_store.py:40-41 and faiss_store.py:64-65: metadatas defaults to one {} per text
DefaultMetadatas(texts, metadatas) ==
    IF ~metadatas.given THEN [i \in 1..Len(texts) |-> <<>>] ELSE metadatas.items

\* add_texts with the length check after collection.add, then as written
ChromaAddTextsLateCheck(coll, texts, metadatas) ==
    IF texts = <<>> THEN Returned(coll)
    ELSE LET metas == DefaultMetadatas(texts, metadatas)
             embeddings == EmbedTexts(texts)
             added == coll \o [i \in 1..Min(Len(texts), Len(metas)) |->
                                  [document |-> texts[i], metadata |-> metas[i],
                                   embedding |-> embeddings[i]]]
         IN  IF Len(metas) # Len(texts) THEN Raised("ValueError", added)
             ELSE Returned(added)

\* chroma_store.py:37-53: add_texts(texts, metadatas) on the collection coll; the
\* value is the collection afterwards (uuid ids are left out: nothing reads them)
ChromaAddTexts(coll, texts, metadatas) ==
    IF texts = <<>> THEN Returned(coll)
    ELSE LET metas == DefaultMetadatas(texts, metadatas)
             embeddings == EmbedTexts(texts)
         IN  IF Len(metas) # Len(texts) THEN Raised("ValueError", coll)
             ELSE Returned(coll \o [i \in 1..Len(texts) |->
                                       [document |-> texts[i], metadata |-> metas[i],
                                        embedding |-> embeddings[i]]])

\* chroma_store.py:37-43 and faiss_store.py:61-69: the calls of embed_texts that
\* add_texts makes: none when it returns or raises before line 43, line 69
AddEmbeds(texts, metadatas) ==
    IF texts = <<>> THEN 0
    ELSE IF Len(DefaultMetadatas(texts, metadatas)) # Len(texts) THEN 0
    ELSE 1

\* faiss_store.py:48-51
EnsureIndex(index) == IF index = None THEN Some(<<>>) ELSE index

\* add_texts without the guard of line 62: the index is made for no vector
FaissAddTextsUnguarded(index, docs, texts, metadatas) ==
    LET metas == DefaultMetadatas(texts, metadatas)
        vectors == EmbedTexts(texts)
    IN  IF Len(metas) # Len(texts) THEN Raised("ValueError", <<index, docs>>)
        ELSE Returned(<<Some(EnsureIndex(index).items \o vectors),
                        docs \o [i \in 1..Len(texts) |->
                                    [text |-> texts[i], metadata |-> metas[i]]]>>)

\* faiss_store.py:61-75: add_texts(texts, metadatas) up to the call of _persist;
\* the value is <<_index, _docs>> afterwards
FaissAddTexts(index, docs, texts, metadatas) ==
    IF texts = <<>> THEN Returned(<<index, docs>>)
    ELSE LET metas == DefaultMetadatas(texts, metadatas)
             vectors == EmbedTexts(texts)
         IN  IF Len(metas) # Len(texts) THEN Raised("ValueError", <<index, docs>>)
             ELSE Returned(<<Some(EnsureIndex(index).items \o vectors),
                             docs \o [i \in 1..Len(texts) |->
                                         [text |-> texts[i], metadata |-> metas[i]]]>>)

\* _persist writing index.faiss alone, then as written
FaissPersistIndexOnly(index, docs, files) ==
    IF index = None THEN files ELSE [files EXCEPT !.index = index]
\* faiss_store.py:53-59: the two files after _persist
FaissPersist(index, docs, files) ==
    IF index = None THEN files ELSE [index |-> index, docs |-> Some(docs)]

\* ---------------------------------------------------- similarity_search
MaxDocs == 3       \* chunks a store holds at most
MaxK == 3          \* largest k asked for

\* The libraries rank: the orders in which the m best of the entries in left can
\* come back, best (smallest key) first; entries with equal keys come in any order.
RECURSIVE BestFirst(_, _, _)
BestFirst(key, left, m) ==
    IF m = 0 \/ left = {} THEN {<<>>}
    ELSE UNION {{<<x>> \o rest : rest \in BestFirst(key, left \ {x}, m - 1)} :
                   x \in {y \in left : \A z \in left : key[y] <= key[z]}}

\* the inner product of q with each vector, negated: the key IndexFlatIP ranks by
RECURSIVE NegatedProducts(_, _)
NegatedProducts(q, vectors) ==
    IF vectors = <<>> THEN <<>>
    ELSE <<0 - InnerProduct(q, Head(vectors))>> \o NegatedProducts(q, Tail(vectors))

\* the distance of q to each entry: the key the collection ranks by
RECURSIVE Distances(_, _)
Distances(q, coll) ==
    IF coll = <<>> THEN <<>>
    ELSE <<L2Distance(q, Head(coll).embedding)>> \o Distances(q, Tail(coll))

\* faiss IndexFlatIP.search(q, k): k <<score, idx>> pairs, highest inner product
\* first, padded with idx -1 when the index holds fewer than k vectors
FaissIndexSearch(vectors, q, k) ==
    LET n == Len(vectors)
        key == NegatedProducts(q, vectors)
    IN  {[i \in 1..k |-> IF i <= Len(hits) THEN <<0 - key[hits[i]], hits[i] - 1>>
                         ELSE <<0 - Unit, -1>>] :
            hits \in BestFirst(key, 1..n, Min(k, n))}

\* chromadb Collection.query(query_embeddings=[q], n_results=k): the min(k, count)
\* nearest entries as <<document, metadata, distance>>, smallest distance first
ChromaQuery(coll, q, k) ==
    LET n == Len(coll)
        dist == Distances(q, coll)
    IN  {[i \in 1..Len(hits) |->
             <<coll[hits[i]].document, coll[hits[i]].metadata, dist[hits[i]]>>] :
            hits \in BestFirst(dist, 1..n, Min(k, n))}

\* faiss_store.py:87-88: the pairs the loop skips: with a score threshold, then as written
SkipsLowScore(score, idx) == idx = -1 \/ score * 2 < Unit
Skips(score, idx) == idx = -1

\* faiss_store.py:85-91 on the pairs the index answered
RECURSIVE FaissCollect(_, _)
FaissCollect(pairs, docs) ==
    IF pairs = <<>> THEN Returned(<<>>)
    ELSE LET score == Head(pairs)[1]
             idx == Head(pairs)[2]
             rest == FaissCollect(Tail(pairs), docs)
         IN  IF Skips(score, idx) THEN rest
             ELSE IF idx >= Len(docs) THEN Raised("IndexError", <<>>)
             ELSE IF rest.raised # "none" THEN rest
             ELSE Returned(<<[text |-> docs[idx + 1].text, score |-> score,
                              metadata |-> docs[idx + 1].metadata]>> \o rest.value)

\* chroma_store.py:70: the distance passed through unconverted, then as written
ChromaScoreIsDistance(dist) == dist
\* 1.0 / (1.0 + dist) in Unit units, the quotient kept to Scale places
ChromaScore(dist) == ((Unit * Scale) \div (Unit + dist)) * Scale

\* the rows collected without their metadatas, then chroma_store.py:64-72 on the
\* rows the collection answered
ChromaCollectTextOnly(rows) ==
    [i \in 1..Len(rows) |->
        [text |-> rows[i][1], score |-> ChromaScore(rows[i][3]), metadata |-> <<>>]]
ChromaCollect(rows) ==
    [i \in 1..Len(rows) |->
        [text |-> rows[i][1], score |-> ChromaScore(rows[i][3]), metadata |-> rows[i][2]]]

BatchSizes == {0, 1, 2}
Batches == UNION {[1..n -> SampleTexts] : n \in BatchSizes}
\* each sample text comes from a source of its own
Tagged(texts) ==
    [i \in 1..Len(texts) |-> [source |-> <<"s">> \o texts[i], chunk_index |-> 0]]

\* the metadatas add_texts is called with: one for each text, one too many, one
\* too few
MetadataLists(texts) ==
    {Some(Tagged(texts)), Some(Tagged(texts) \o Tagged(<<<<>>>>))}
        \cup (IF texts = <<>> THEN {} ELSE {Some(Tail(Tagged(texts)))})

\* faiss_store.py:61-76
FaissAdd ==
    /\ backend = "faiss"
    /\ \E texts \in Batches : \E metadatas \in MetadataLists(texts) :
         /\ Len(_docs) + Len(texts) <= MaxDocs
         /\ LET done == FaissAddTexts(_index, _docs, texts, metadatas)
            IN  /\ _index' = done.value[1]
                /\ _docs' = done.value[2]
                /\ disk' = IF texts = <<>> \/ done.raised # "none" THEN disk
                           ELSE FaissPersist(done.value[1], done.value[2], disk)
                /\ req' = AddRequest(Len(_docs), texts, metadatas, AddEmbeds(texts, metadatas))
                /\ retrieved' = [done EXCEPT !.value = <<>>]
    /\ UNCHANGED <<_collection, backend>>

\* chroma_store.py:37-53
ChromaAdd ==
    /\ backend = "chroma"
    /\ \E texts \in Batches : \E metadatas \in MetadataLists(texts) :
         /\ Len(_collection) + Len(texts) <= MaxDocs
         /\ LET done == ChromaAddTexts(_collection, texts, metadatas)
            IN  /\ _collection' = done.value
                /\ req' = AddRequest(Len(_collection), texts, metadatas, AddEmbeds(texts, metadatas))
                /\ retrieved' = [done EXCEPT !.value = <<>>]
    /\ UNCHANGED <<_docs, _index, disk, backend>>

\* faiss_store.py:78-91: what similarity_search(query, k) can give back, each with
\* what the index answered; Index.search asserts k > 0 (line 83)
FaissSimilaritySearch(index, docs, query, k) ==
    IF index = None \/ docs = <<>> THEN {[raw |-> <<>>, out |-> Returned(<<>>)]}
    ELSE IF k < 1 THEN {[raw |-> <<>>, out |-> Raised("AssertionError", <<>>)]}
    ELSE {[raw |-> pairs, out |-> FaissCollect(pairs, docs)] :
             pairs \in FaissIndexSearch(index.items, EmbedTexts(<<query>>)[1], k)}

\* chroma_store.py:55-72: what similarity_search(query, k) can give back, each with
\* the rows the collection answered; Collection.query rejects n_results < 1 (line 57)
ChromaSimilaritySearch(coll, query, k) ==
    IF k < 1 THEN {[raw |-> <<>>, out |-> Raised("ValueError", <<>>)]} ELSE
    {[raw |-> rows, out |-> Returned(ChromaCollect(rows))] :
        rows \in ChromaQuery(coll, EmbedTexts(<<query>>)[1], k)}

\* store.similarity_search(query, k=k) on the store the process was built with
SimilaritySearch(query, k) ==
    IF backend = "faiss" THEN FaissSimilaritySearch(_index, _docs, query, k)
    ELSE ChromaSimilaritySearch(_collection, query, k)

\* the chunks the store of the process holds
Held == IF backend = "faiss" THEN Len(_docs) ELSE Len(_collection)

\* faiss_store.py:78-91
FaissSearch ==
    /\ backend = "faiss"
    /\ \E query \in Queries, k \in 0..MaxK :
         \E got \in FaissSimilaritySearch(_index, _docs, query, k) :
           /\ req' = SearchRequest(query, k, Len(_docs), got.raw)
           /\ retrieved' = got.out
    /\ UNCHANGED <<_collection, _docs, _index, disk, backend>>

\* chroma_store.py:55-72
ChromaSearch ==
    /\ backend = "chroma"
    /\ \E query \in Queries, k \in 0..MaxK :
         \E got \in ChromaSimilaritySearch(_collection, query, k) :
           /\ req' = SearchRequest(query, k, Len(_collection), got.raw)
           /\ retrieved' = got.out
    /\ UNCHANGED <<_collection, _docs, _index, disk, backend>>

StoreInit == StoresEmpty /\ backend \in {"faiss", "chroma"}

\* ------------------------------------------------ similarity_search properties
Searched == req.op = "similarity_search" /\ req.k >= 1
Results == retrieved.value

\* C9: a search with k >= 1 gives back at most k chunks, scores never increasing;
\* on the collection backend the chunks keep the nearest-first order of the rows.
C9_ScoresNonIncreasing ==
    (Searched /\ retrieved.raised = "none") =>
        /\ Len(Results) <= req.k
        /\ \A i \in 1..(Len(Results) - 1) : Results[i].score >= Results[i + 1].score
        /\ backend = "chroma" =>
               /\ Len(Results) = Len(req.raw)
               /\ \A i \in 1..Len(Results) : Results[i].text = req.raw[i][1]
               /\ \A i \in 1..(Len(req.raw) - 1) : req.raw[i][3] <= req.raw[i + 1][3]

C9_Witness ==
    /\ Searched /\ backend = "chroma"
    /\ Len(Results) = 3
    /\ Results[1].score > Results[2].score /\ Results[2].score > Results[3].score

\* C10: a search with k >= 1 on a store holding n chunks gives back exactly
\* min(k, n) chunks and does not raise, however low the scores.
C10_ReturnsMinKN ==
    Searched => (retrieved.raised = "none" /\ Len(Results) = Min(req.k, req.held))

C10_Witness ==
    /\ Searched /\ backend = "faiss"
    /\ req.held = 2 /\ req.k > req.held
    /\ Len(Results) = 2
    /\ \E i \in 1..Len(Results) : Results[i].score * 2 < Unit

\* C11: every chunk a search gives back has a score between 0 and 1, on both
\* backends, the zero vector of a text without tokens included.
C11_ScoreInUnitInterval ==
    (Searched /\ retrieved.raised = "none") =>
        \A i \in 1..Len(Results) : 0 <= Results[i].score /\ Results[i].score <= Unit

\* C21: similarity_search called with k < 1 or with an empty query raises an error
\* on both backends, whatever the store holds; it never returns a list.
C21_InvalidSearchRaises ==
    (req.op = "similarity_search" /\ (req.k < 1 \/ req.query = <<>>)) =>
        retrieved.raised # "none"

\* ------------------------------------------- the flat store, step by step
VARIABLES
    writer,    \* the add_texts call in progress on the flat store: where it stands,
               \* <<_index, _docs>> as the call found them and as it leaves them
    opened     \* whether the process stopped and the store was opened again, and
               \* the writer as it stood at the stop

flatVars == <<writer, opened>>

NoWriter == [pc |-> "idle", pre |-> <<None, <<>>>>, post |-> <<None, <<>>>>]
NotOpened == [given |-> FALSE, at |-> NoWriter]
FlatIdle == writer = NoWriter /\ opened = NotOpened

\* faiss_store.py:38-46: <<_index, _docs>> of a store opened on the files
LoadIfExists(files) ==
    IF files.index.given /\ files.docs.given THEN <<files.index, files.docs.items>>
    ELSE <<None, <<>>>>

\* faiss_store.py:61-72: the guards, the embedding and index.add(vectors)
AddTextsEnter ==
    /\ backend = "faiss" /\ writer.pc = "idle"
    /\ \E texts \in Batches : \E metadatas \in {Some(Tagged(texts))} :
         /\ Len(_docs) + Len(texts) <= MaxDocs
         /\ Len(EnsureIndex(_index).items) + Len(texts) <= MaxDocs
         /\ LET done == FaissAddTexts(_index, _docs, texts, metadatas)
            IN  /\ _index' = done.value[1]
                /\ writer' = IF texts = <<>> THEN writer
                              ELSE [pc |-> "append", pre |-> <<_index, _docs>>,
                                    post |-> done.value]
                /\ opened' = IF texts = <<>> THEN opened ELSE NotOpened
                /\ req' = AddRequest(Len(_docs), texts, metadatas, AddEmbeds(texts, metadatas))
                /\ retrieved' = Returned(<<>>)
    /\ UNCHANGED <<_collection, _docs, disk, backend>>

\* faiss_store.py:73-74: one turn of the loop that appends to _docs
AppendDoc ==
    /\ writer.pc = "append"
    /\ _docs' = Append(_docs, writer.post[2][Len(_docs) + 1])
    /\ writer' = [writer EXCEPT !.pc = IF Len(_docs) + 1 = Len(writer.post[2])
                                        THEN "write_index" ELSE "append"]
    /\ UNCHANGED <<_collection, _index, disk, backend, req, retrieved, opened>>

\* faiss_store.py:54-56: faiss.write_index on index.faiss, in place
WriteIndex ==
    /\ writer.pc = "write_index"
    /\ disk' = IF _index = None THEN disk ELSE [disk EXCEPT !.index = _index]
    /\ writer' = [writer EXCEPT !.pc = IF _index = None THEN "idle" ELSE "open_docs"]
    /\ UNCHANGED <<_collection, _docs, _index, backend, req, retrieved, opened>>

\* faiss_store.py:57: open(docs.jsonl, "w") leaves the file empty
OpenDocs ==
    /\ writer.pc = "open_docs"
    /\ disk' = [disk EXCEPT !.docs = Some(<<>>)]
    /\ writer' = [writer EXCEPT !.pc = IF _docs = <<>> THEN "idle" ELSE "write_docs"]
    /\ UNCHANGED <<_collection, _docs, _index, backend, req, retrieved, opened>>

\* faiss_store.py:58-59: one line of docs.jsonl; after the last one add_texts returns
WriteDoc ==
    /\ writer.pc = "write_docs"
    /\ LET n == Len(disk.docs.items)
       IN  /\ disk' = [disk EXCEPT !.docs = Some(Append(disk.docs.items, _docs[n + 1]))]
           /\ writer' = [writer EXCEPT !.pc = IF n + 1 = Len(_docs) THEN "idle"
                                               ELSE "write_docs"]
    /\ UNCHANGED <<_collection, _docs, _index, backend, req, retrieved, opened>>

\* the process stops wherever the writer stands; a new process builds the store
\* on the same persist_dir (faiss_store.py:27-36)
Reopen ==
    /\ backend = "faiss"
    /\ LET loaded == LoadIfExists(disk)
       IN  /\ _index' = loaded[1]
           /\ _docs' = loaded[2]
           /\ writer' = [pc |-> "idle", pre |-> loaded, post |-> loaded]
    /\ opened' = [given |-> TRUE, at |-> writer]
    /\ req' = NoRequest
    /\ retrieved' = Returned(<<>>)
    /\ UNCHANGED <<_collection, disk, backend>>

\* faiss_store.py:78-91, between any two steps of the writer
FlatSearch ==
    /\ backend = "faiss"
    /\ \E query \in {<<"a">>}, k \in 1..MaxK :
         \E got \in FaissSimilaritySearch(_index, _docs, query, k) :
           /\ req' = SearchRequest(query, k, Len(_docs), got.raw)
           /\ retrieved' = got.out
    /\ UNCHANGED <<_collection, _docs, _index, disk, backend, writer, opened>>

FlatInit == StoresEmpty /\ backend = "faiss" /\ FlatIdle

\* ------------------------------------------------ flat store properties
\* C12: wherever the process stops during _persist, a later open loads a vector
\* table and a docs list of equal length, equal to the state before the add or
\* to the state after it.
C12_StopLeavesConsistentStore ==
    opened.given =>
        /\ Len(EnsureIndex(_index).items) = Len(_docs)
        /\ <<_index, _docs>> \in {opened.at.pre, opened.at.post}

\* C13: a search that runs while add_texts is in progress sees the store before
\* the add or after it: every position the index answers has its entry in _docs
\* and the lookup does not go out of range.
C13_SearchSeesWholeAdd ==
    Searched =>
        /\ retrieved.raised = "none"
        /\ \A i \in 1..Len(req.raw) : req.raw[i][2] < req.held

\* C28: on the flat store, whatever add_texts calls were made, the index holds one
\* vector for each entry of _docs, the i-th being the embedding of the i-th text;
\* docs.jsonl lists _docs in order, and a store opened on the same directory
\* loads the same docs and the same vectors.
C28_IndexDocsAndFilesAgree ==
    backend = "faiss" =>
        LET vectors == EnsureIndex(_index).items
        IN  /\ Len(vectors) = Len(_docs)
            /\ \A i \in 1..Len(_docs) : vectors[i] = Embedding(_docs[i].text)
            /\ disk.docs.given => disk.docs.items = _docs
            /\ _docs # <<>> => disk.docs.given /\ disk.index.given
            /\ LoadIfExists(disk) = <<_index, _docs>>

C28_Witness ==
    /\ backend = "faiss" /\ req.op = "add_texts" /\ req.held = 1 /\ Len(req.texts) = 2
    /\ Len(_docs) = 3 /\ _docs[1].text # _docs[3].text
    /\ disk.docs = Some(_docs) /\ Len(disk.index.items) = 3

\* what rounding may move the squared norm of a normalised vector by, in Unit units
Tolerance == 5 * Scale
Normalized(v) ==
    InnerProduct(v, v) >= Unit - Tolerance /\ InnerProduct(v, v) <= Unit + Tolerance

\* C16: every vector embed_texts gives back has norm 1 (up to rounding): the
\* vectors the flat index and the collection hold and the vector of the query,
\* the empty text and a text without token characters included.
C16_VectorsNormalized ==
    /\ _index.given => \A i \in 1..Len(_index.items) : Normalized(_index.items[i])
    /\ \A i \in 1..Len(_collection) : Normalized(_collection[i].embedding)
    /\ Searched => Normalized(EmbedTexts(<<req.query>>)[1])

\* C14: add_texts with an empty list is a no-op on both backends: it embeds
\* nothing, leaves the docs list, the index and the collection as they were,
\* creates no index and writes no file.
C14_EmptyAddIsNoOp ==
    [][(req'.op = "add_texts" /\ req'.texts = <<>>)
          => (UNCHANGED <<_collection, _docs, _index, disk>> /\ req'.embeds = 0)]_storeVars

C14_Witness ==
    /\ req.op = "add_texts" /\ req.texts = <<>> /\ req.embeds = 0
    /\ backend = "faiss" /\ _index = None /\ disk = NoFiles

\* ------------------------------------------------------------ formatting
VARIABLES
    context    \* when the last call on the store came from query_rag or from
               \* retrieve_context_from_model_output: the caller, the query it built,
               \* the chunks it formatted, the text it gave back and the exception it
               \* raised

formatVars == <<context>>

NoContext == [by |-> "none", query |-> <<>>, chunks |-> <<>>, text |-> "", raised |-> "none"]
FormatIdle == context = NoContext

\* the characters of a text as one string
RECURSIVE Str(_)
Str(t) ==
    IF t = <<>> THEN ""
    ELSE IF Len(t) = 1 THEN t[1]
    ELSE LET half == Len(t) \div 2
         IN  Str(SubSeq(t, 1, half)) \o Str(SubSeq(t, half + 1, Len(t)))

\* format(score, ".4f") of a score given in Unit units: four places, the
\* nearest one
ScoreText(score) ==
    LET places == (score + 50) \div 100
        frac == places % 10000
    IN  ToString(places \div 10000) \o "."
            \o (IF frac < 10 THEN "000" ELSE IF frac < 100 THEN "00"
                ELSE IF frac < 1000 THEN "0" ELSE "")
            \o ToString(frac)

\* the source left out of the header, then ch.metadata.get("source", "unknown")
SourceUnknown(metadata) == "unknown"
SourceOf(metadata) ==
    IF metadata = <<>> THEN "unknown"
    ELSE IF "source" \in DOMAIN metadata THEN Str(metadata.source)
    ELSE "unknown"

\* query.py:69
Block(i, ch) ==
    "[CONTEXT " \o ToString(i) \o " | source=" \o SourceOf(ch.metadata)
        \o " | score=" \o ScoreText(ch.score) \o "]\n" \o Str(ch.text)

RECURSIVE JoinBlocks(_, _)
JoinBlocks(sep, blocks) ==
    IF blocks = <<>> THEN ""
    ELSE IF Len(blocks) = 1 THEN blocks[1]
    ELSE blocks[1] \o sep \o JoinBlocks(sep, Tail(blocks))

\* query.py:63-64: what the formatter gives back for an empty list
EmptyContext == ""

\* the chunks without the repeats of an earlier chunk
RECURSIVE Distinct(_)
Distinct(cs) ==
    IF cs = <<>> THEN <<>>
    ELSE LET front == Distinct(SubSeq(cs, 1, Len(cs) - 1))
             last == cs[Len(cs)]
         IN  IF \E i \in 1..Len(front) : front[i] = last THEN front ELSE Append(front, last)

\* a formatter that drops repeated chunks, then query.py:54-71 as written
FormatDistinctContext(retrieved_chunks) ==
    IF retrieved_chunks = <<>> THEN Returned(EmptyContext)
    ELSE Returned(JoinBlocks("\n\n---\n\n", [i \in 1..Len(Distinct(retrieved_chunks)) |->
                                                Block(i, Distinct(retrieved_chunks)[i])]))
FormatRetrievedContext(retrieved_chunks) ==
    IF retrieved_chunks = <<>> THEN Returned(EmptyContext)
    ELSE Returned(JoinBlocks("\n\n---\n\n", [i \in 1..Len(retrieved_chunks) |-> Block(i, retrieved_chunks[i])]))

Rule ==
    "================================================================================"

\* rag.py:82
Relevance(score) ==
    IF score * 10 > 7 * Unit THEN "Highly Relevant"
    ELSE IF score * 10 > 5 * Unit THEN "Relevant"
    ELSE "Low Relevance"

\* rag.py:83-84
_Block(i, ch) ==
    "\n" \o Rule \o "\nCONTEXT " \o ToString(i) \o " | Source: " \o SourceOf(ch.metadata)
        \o " | Relevance: " \o Relevance(ch.score)
        \o " (Score: " \o ScoreText(ch.score) \o ")\n" \o Rule \o "\n" \o Str(ch.text)

\* rag.py:75-87
_FormatRetrievedContext(retrieved_chunks) ==
    IF retrieved_chunks = <<>> THEN "No relevant knowledge retrieved."
    ELSE JoinBlocks("", [i \in 1..Len(retrieved_chunks) |-> _Block(i, retrieved_chunks[i])])
             \o "\n\n" \o Rule \o "\nEND OF RETRIEVED KNOWLEDGE BASE\n" \o Rule

\* rag.py:99-103: the canonical formatter, the local one when it raises
ContextOf(retrieved_chunks) ==
    LET got == FormatRetrievedContext(retrieved_chunks)
    IN  IF got.raised = "none" THEN got.value ELSE _FormatRetrievedContext(retrieved_chunks)

\* query.py:74-95, called with one of the verdicts model_outputs
QueryRagOn(model_outputs) ==
    \E model_output \in model_outputs, k \in 1..MaxK :
        \E query \in {BuildQueryFromMlOutput(model_output)} :
            \E got \in SimilaritySearch(query, k) :
              /\ req' = SearchRequest(query, k, Held, got.raw)
              /\ retrieved' = got.out
              /\ context' = IF got.out.raised # "none"
                            THEN [NoContext EXCEPT !.by = "query_rag", !.query = query,
                                                   !.raised = got.out.raised]
                            ELSE [by |-> "query_rag", query |-> query, chunks |-> got.out.value,
                                  text |-> FormatRetrievedContext(got.out.value).value,
                                  raised |-> "none"]
              /\ UNCHANGED <<_collection, _docs, _index, disk, backend>>
QueryRag == QueryRagOn(ModelOutputs)

\* rag.py:90-104, on the store get_store() builds
RetrieveContextFromModelOutput ==
    /\ backend = "chroma"
    /\ \E model_output \in ModelOutputs, k \in 1..MaxK :
         \E query \in {BuildQueryFromMlOutput(model_output)} :
             \E got \in ChromaSimilaritySearch(_collection, query, k) :
               /\ req' = SearchRequest(query, k, Len(_collection), got.raw)
               /\ retrieved' = got.out
               /\ context' = [by |-> "retrieve_context_from_model_output", query |-> query,
                              chunks |-> got.out.value, text |-> ContextOf(got.out.value),
                              raised |-> "none"]
    /\ UNCHANGED <<_collection, _docs, _index, disk, backend>>

\* the chunk lists the formatters are called on directly: every order, repeats
\* included; scores on, above and below the two thresholds
ChunkHigh == [text |-> <<"a">>, score |-> 900000, metadata |-> [source |-> <<"x">>, chunk_index |-> 0]]
ChunkAtUpper == [text |-> <<"a">>, score |-> 700000, metadata |-> [source |-> <<"y">>, chunk_index |-> 1]]
ChunkAtLower == [text |-> <<"b">>, score |-> 500000, metadata |-> <<>>]
ChunkLow == [text |-> <<"b">>, score |-> 300000, metadata |-> [source |-> <<"x">>, chunk_index |-> 2]]
SampleChunks == {ChunkHigh, ChunkAtUpper, ChunkAtLower, ChunkLow}
ChunkLists == UNION {[1..n -> SampleChunks] : n \in 0..3}

\* query.py:54-71, called on a list
FormatCanonical ==
    \E list \in ChunkLists :
        context' = [NoContext EXCEPT !.by = "format_retrieved_context", !.chunks = list,
                                     !.text = FormatRetrievedContext(list).value]

\* rag.py:75-87, called on a list
FormatLocal ==
    \E list \in ChunkLists :
        context' = [NoContext EXCEPT !.by = "_format_retrieved_context", !.chunks = list,
                                     !.text = _FormatRetrievedContext(list)]

\* ------------------------------------------------------- formatter properties
Formatted == context.by # "none" /\ context.raised = "none"

\* C1: the formatter gives a fixed non-empty string for the empty chunk list, one
\* that no non-empty list yields, so no retrieval call gives back an empty context.
C1_EmptyListGivesSentinel ==
    /\ Formatted => context.text # ""
    /\ (Formatted /\ context.chunks # <<>>) => context.text # FormatRetrievedContext(<<>>).value

\* the positions of the string hay where the string needle starts
Occurs(needle, hay) ==
    {p \in 1..(Len(hay) - Len(needle) + 1) : SubSeq(hay, p, p + Len(needle) - 1) = needle}

FormattedList == context.by \in {"format_retrieved_context", "_format_retrieved_context"}
Local == context.by = "_format_retrieved_context"
\* where the blocks of the formatted text start, in increasing order
BlockStarts == Ascending(Occurs(IF Local THEN "\nCONTEXT " ELSE "[CONTEXT ", context.text))
\* the i-th block: from its start to the start of the next one, or to the end
BlockText(i) ==
    SubSeq(context.text, BlockStarts[i],
           IF i < Len(BlockStarts) THEN BlockStarts[i + 1] - 1 ELSE Len(context.text))
Bands == {"Highly Relevant", "Relevant", "Low Relevance"}
\* the block that carries chunk ch as number i of n, with the band named
ExpectedBlock(i, n, ch, band) ==
    IF Local
    THEN "\nCONTEXT " \o ToString(i) \o " | Source: " \o SourceOf(ch.metadata)
             \o " | Relevance: " \o band \o " (Score: " \o ScoreText(ch.score) \o ")\n"
             \o Rule \o "\n" \o Str(ch.text)
             \o (IF i < n THEN "\n" \o Rule
                 ELSE "\n\n" \o Rule \o "\nEND OF RETRIEVED KNOWLEDGE BASE\n" \o Rule)
    ELSE "[CONTEXT " \o ToString(i) \o " | source=" \o SourceOf(ch.metadata)
             \o " | score=" \o ScoreText(ch.score) \o "]\n" \o Str(ch.text)
             \o (IF i < n THEN "\n\n---\n\n" ELSE "")

\* C19: for a list of n chunks, n >= 1, the formatter emits exactly n blocks
\* numbered 1..n, the i-th carrying the i-th chunk's source, score and text as
\* they are; it does not reorder, merge or drop chunks, repeated chunks and
\* chunks out of score order included.
C19_OneBlockPerChunkInOrder ==
    (FormattedList /\ context.chunks # <<>>) =>
        LET n == Len(context.chunks)
        IN  /\ Len(BlockStarts) = n
            /\ \A i \in 1..n :
                  \E band \in Bands :
                      BlockText(i) = ExpectedBlock(i, n, context.chunks[i], band)

C19_Witness ==
    /\ context.by = "format_retrieved_context" /\ Len(context.chunks) = 3
    /\ context.chunks[1] = context.chunks[3]
    /\ context.chunks[1].score < context.chunks[2].score
    /\ Len(BlockStarts) = 3

\* the band the spec gives a score
BandOf(score) ==
    IF score * 10 > 7 * Unit THEN "Highly Relevant"
    ELSE IF score * 10 >= 5 * Unit THEN "Relevant"
    ELSE "Low Relevance"
\* the bands a block names ("Relevant" is also the end of "Highly Relevant")
BandsIn(block) ==
    {b \in Bands :
        \E p \in Occurs(b, block) :
            b = "Relevant" => (p <= 7 \/ SubSeq(block, p - 7, p - 1) # "Highly ")}

\* C20: the formatter labels each chunk with exactly one band, given by its score
\* alone: highly relevant above 0.7, relevant from 0.5 to 0.7, low relevance
\* below 0.5; no chunk is left out for its band.
C20_OneBandPerScore ==
    (FormattedList /\ context.chunks # <<>>) =>
        /\ Len(BlockStarts) = Len(context.chunks)
        /\ \A i \in 1..Len(BlockStarts) :
              BandsIn(BlockText(i)) = {BandOf(context.chunks[i].score)}

\* ------------------------------------------ build_query_from_ml_output
VARIABLES
    verdict,   \* the classifier output handed to build_query_from_ml_output
    built      \* the call made on it: the verdict as it was handed in and the query
               \* that came back

queryVars == <<verdict, built>>

NotBuilt == [called |-> FALSE, given |-> NoVerdict, query |-> <<>>]
QueryIdle == verdict = NoVerdict /\ built = NotBuilt

EntryB == [isdict |-> TRUE, label |-> Some(<<"b">>), score |-> Some(920)]
EntryC == [isdict |-> TRUE, label |-> Some(<<"c">>), score |-> Some(500)]
EntryBare == [isdict |-> TRUE, label |-> None, score |-> None]
NotAnEntry == [isdict |-> FALSE, label |-> None, score |-> None]
Verdicts ==
    [panel_id : {None, Some(<<"p", "1">>)},
     primary_defect : {None, Some(<<"b">>)},
     confidence : {None, Some(920), Some(1000)},
     top_predictions : {None, Some(<<>>), Some(<<EntryB>>), Some(<<EntryB, EntryC>>),
                        Some(<<EntryC, EntryB>>), Some(<<EntryB, NotAnEntry, EntryC>>),
                        Some(<<EntryBare>>)}]

QueryInit == verdict \in Verdicts /\ built = NotBuilt

\* query.py:9-51: the call reads the verdict with .get and writes nothing to it
BuildQuery ==
    /\ ~built.called
    /\ built' = [called |-> TRUE, given |-> verdict,
                 query |-> BuildQueryFromMlOutput(verdict)]
    /\ verdict' = verdict

\* the parts of s between the separators ", "
RECURSIVE SplitItems(_)
SplitItems(s) ==
    IF s = <<>> THEN <<>>
    ELSE LET at == {i \in 1..(Len(s) - 1) : s[i] = "," /\ s[i + 1] = " "}
         IN  IF at = {} THEN <<s>>
             ELSE LET i == CHOOSE j \in at : \A m \in at : j <= m
                  IN  <<SubSeq(s, 1, i - 1)>> \o SplitItems(SubSeq(s, i + 2, Len(s)))

\* C18: the query is its lines joined by newline in a fixed order: the domain
\* tag, primary_defect, confidence, top_predictions with the entries in input
\* order, a panel_id line exactly when panel_id is not None, then the four
\* boosting phrases; the verdict is left as it was.
C18_QueryLinesInFixedOrder ==
    built.called =>
        LET lines == SplitLines(built.query)
            n == Len(lines)
            given == IF verdict.top_predictions.given
                     THEN verdict.top_predictions.items ELSE <<>>
            dicts == SelectSeq(given, LAMBDA p : p.isdict)
            field == Len(TopPredictionsField)
        IN  /\ n = 8 + (IF verdict.panel_id.given THEN 1 ELSE 0)
            /\ lines[1] = DomainTag
            /\ lines[2] = PrimaryDefectField \o StrOf(verdict.primary_defect)
            /\ lines[3] = ConfidenceField \o StrOfFloat(verdict.confidence)
            /\ SubSeq(lines[4], 1, field) = TopPredictionsField
            /\ LET items == SplitItems(SubSeq(lines[4], field + 1, Len(lines[4])))
               IN  /\ Len(items) = Len(dicts)
                   /\ \A k \in 1..Len(dicts) :
                         items[k] = StrOf(dicts[k].label) \o <<" ", "(">>
                                       \o StrOfFloat(dicts[k].score) \o <<")">>
            /\ verdict.panel_id.given => lines[5] = PanelIdField \o verdict.panel_id.items
            /\ SubSeq(lines, n - 3, n) = BoostPhrases
            /\ built.given = verdict

C18_Witness ==
    /\ built.called
    /\ verdict.panel_id.given /\ verdict.confidence.given
    /\ verdict.top_predictions = Some(<<EntryB, NotAnEntry, EntryC>>)
    /\ Len(SplitLines(built.query)) = 9

\* ------------------------------------------- EmbeddingModel, call by call
MaxProcesses == 2  \* processes that embed, one after the other

VARIABLES
    embedLog   \* the calls of embed_texts so far: the process that runs, the last
               \* call and what it gave back, and for each text the vectors it
               \* was given, at which positions, in which processes, and whether
               \* it was ever embedded in a batch of its own

embedVars == <<embedLog>>

EmbedSamples == {<<"a">>, <<"a", " ", "b">>}
EmbedBatches == UNION {[1..n -> EmbedSamples] : n \in 0..2}

NeverEmbedded == [vectors |-> {}, positions |-> {}, processes |-> {}, alone |-> FALSE]
NoEmbedLog ==
    [process |-> 1, last |-> [texts |-> <<>>, value |-> Returned(<<>>), called |-> FALSE],
     seen |-> [t \in EmbedSamples |-> NeverEmbedded]]
EmbedIdle == embedLog = NoEmbedLog

\* embeddings.py:20-39: one call of embed_texts
EmbedCall ==
    \E texts \in EmbedBatches :
        LET value == EmbedBatch(texts)
            at(t) == {i \in 1..Len(texts) : texts[i] = t}
        IN  embedLog' =
                [embedLog EXCEPT
                    !.last = [texts |-> texts, value |-> Returned(value), called |-> TRUE],
                    !.seen = [t \in EmbedSamples |->
                                 IF at(t) = {} THEN @[t]
                                 ELSE [vectors |-> @[t].vectors \cup {value[i] : i \in at(t)},
                                       positions |-> @[t].positions \cup at(t),
                                       processes |-> @[t].processes \cup {embedLog.process},
                                       alone |-> @[t].alone \/ Len(texts) = 1]]]

\* the process ends and another one builds its EmbeddingModel (embeddings.py:17-18):
\* the model keeps nothing but dim
EmbedRestart ==
    /\ embedLog.process < MaxProcesses
    /\ embedLog' = [embedLog EXCEPT !.process = @ + 1,
                                    !.last = NoEmbedLog.last]

\* C17: embed_texts is a pure function of each text: a text is given the same
\* vector in every call, whatever the batch around it, its position, the calls
\* before and the process; an empty batch gives an empty result and no error.
C17_EmbedIsPureFunction ==
    /\ \A t \in EmbedSamples : Cardinality(embedLog.seen[t].vectors) <= 1
    /\ embedLog.last.value.raised = "none"
    /\ Len(embedLog.last.value.value) = Len(embedLog.last.texts)

C17_Witness ==
    /\ \E t \in EmbedSamples :
          /\ embedLog.seen[t].positions = {1, 2}
          /\ embedLog.seen[t].processes = 1..MaxProcesses
          /\ embedLog.seen[t].alone
          /\ Cardinality(embedLog.seen[t].vectors) = 1
    /\ embedLog.last.called /\ embedLog.last.texts = <<>>

\* ----------------------------------------------------- ingest_knowledge
IngestChunkSize == 1200
IngestChunkOverlap == 200

\* the index of the i-th chunk of a document: counted from 1, then as enumerate
\* counts (ingest.py:36)
EnumerateFromOne(i) == i
Enumerate(i) == i - 1

\* ingest.py:36-37: the chunks of one document, tagged {source, chunk_index}
TaggedChunks(t, source, size, overlap) ==
    LET cs == ChunkText(t, size, overlap)
    IN  [i \in 1..Len(cs) |->
            [text |-> cs[i], metadata |-> [source |-> source, chunk_index |-> Enumerate(i)]]]

\* ingest.py:34-37: the chunks of all documents, in document order then chunk order
RECURSIVE IngestChunks(_, _, _, _)
IngestChunks(texts, sources, size, overlap) ==
    IF texts = <<>> THEN <<>>
    ELSE TaggedChunks(Head(texts), Head(sources), size, overlap)
             \o IngestChunks(Tail(texts), Tail(sources), size, overlap)

\* the same with the chunk sizes ensure_ingested leaves at their defaults
DocChunks(t, source) == TaggedChunks(t, source, IngestChunkSize, IngestChunkOverlap)
AllChunks(texts, sources) == IngestChunks(texts, sources, IngestChunkSize, IngestChunkOverlap)

\* a variant that hands the store one batch per source document
RECURSIVE AddCallsPerDocument(_)
AddCallsPerDocument(cs) ==
    IF cs = <<>> THEN <<>>
    ELSE LET src == cs[1].metadata.source
             own == SelectSeq(cs, LAMBDA c : c.metadata.source = src)
             others == SelectSeq(cs, LAMBDA c : c.metadata.source # src)
         IN  <<own>> \o AddCallsPerDocument(others)

\* ingest.py:39-42: the add_texts calls ingest_knowledge makes, one with the whole batch
IngestAddCalls(cs) == <<cs>>

Texts(cs) == [i \in 1..Len(cs) |-> cs[i].text]
Metadatas(cs) == [i \in 1..Len(cs) |-> cs[i].metadata]

\* ingest.py:29-30: sources defaults to "knowledge" for every text
Knowledge == <<"k", "n", "o", "w", "l", "e", "d", "g", "e">>
DefaultSources(texts, sources) ==
    IF ~sources.given THEN [i \in 1..Len(texts) |-> Knowledge] ELSE sources.items

VARIABLES
    ingestion  \* the ingest_knowledge call in progress: its arguments, the chunks it
               \* gathered, the batches it gave to add_texts and what it gave back

ingestionVars == <<ingestion>>

NoIngestion ==
    [pc |-> "idle", knowledge_texts |-> <<>>, sources |-> None, chunk_size |-> 0,
     chunk_overlap |-> 0, chunks |-> <<>>, adds |-> <<>>, result |-> Returned(0)]
IngestionIdle == ingestion = NoIngestion

\* the documents, source lists and chunk sizes ingest_knowledge is called with
Documents == {<<"a", " ", "b">>, <<"c">>, <<" ">>}
DocumentLists == UNION {[1..n -> Documents] : n \in 0..2}
SourceLists == {None, Some(<<>>), Some(<<<<"x">>>>), Some(<<<<"x">>, <<"y">>>>), Some(<<<<"x">>, <<"x">>>>)}
ChunkSizes == {<<IngestChunkSize, IngestChunkOverlap>>, <<2, 1>>}

\* ingest.py:29-37: the argument check and the chunking of every document
IngestKnowledgeEnter ==
    /\ backend = "chroma" /\ ingestion.pc = "idle"
    /\ \E knowledge_texts \in DocumentLists, given \in SourceLists, sizes \in ChunkSizes :
         LET sources == DefaultSources(knowledge_texts, given)
             call == [NoIngestion EXCEPT !.knowledge_texts = knowledge_texts,
                                         !.sources = given,
                                         !.chunk_size = sizes[1],
                                         !.chunk_overlap = sizes[2]]
         IN  IF Len(sources) # Len(knowledge_texts)
             THEN ingestion' = [call EXCEPT !.pc = "raised",
                                            !.result = Raised("ValueError", 0)]
             ELSE LET cs == IngestChunks(knowledge_texts, sources, sizes[1], sizes[2])
                  IN  ingestion' = [call EXCEPT !.pc = "add", !.chunks = cs]
    /\ UNCHANGED storeVars

\* ingest.py:39-42: store.add_texts on the texts and the metadatas of the chunks
IngestKnowledgeAdd ==
    /\ ingestion.pc = "add"
    /\ LET texts == Texts(ingestion.chunks)
           metadatas == Metadatas(ingestion.chunks)
       IN  /\ _collection' = ChromaAddTexts(_collection, texts, Some(metadatas)).value
           /\ req' = AddRequest(Len(_collection), texts, Some(metadatas),
                                AddEmbeds(texts, Some(metadatas)))
           /\ ingestion' = [ingestion EXCEPT
                               !.pc = "return",
                               !.adds = Append(@, [texts |-> texts, metadatas |-> metadatas])]
    /\ UNCHANGED <<_docs, _index, disk, backend, retrieved>>

\* ingest.py:44
IngestKnowledgeReturn ==
    /\ ingestion.pc = "return"
    /\ ingestion' = [ingestion EXCEPT !.pc = "returned",
                                       !.result = Returned(Len(ingestion.chunks))]
    /\ UNCHANGED storeVars

\* the collection is new, or holds a chunk of an earlier run
IngestionInit ==
    /\ _collection \in {<<>>, ChromaAddTexts(<<>>, <<<<"a">>>>, Some(Tagged(<<<<"a">>>>))).value}
    /\ _docs = <<>> /\ _index = None /\ disk = NoFiles /\ backend = "chroma"
    /\ req = NoRequest /\ retrieved = Returned(<<>>)
    /\ IngestionIdle

\* ---------------------------------------------- ingest_knowledge properties
\* C15: a call of ingest_knowledge gives add_texts one batch, once, after every
\* document is chunked: the chunks of the documents in document order then chunk
\* order, each tagged with its source and its index within its document,
\* counted from 0; the count given back is the length of that batch.  (A call
\* rejected by the length check of ingest.py:31-32 raises before it chunks.)
C15_OneAddOfWholeBatch ==
    LET c == ingestion
        n == Len(c.knowledge_texts)
        srcs == DefaultSources(c.knowledge_texts, c.sources)
        doc(d) == ChunkText(c.knowledge_texts[d], c.chunk_size, c.chunk_overlap)
        before(d) == SumSeq([e \in 1..(d - 1) |-> Len(doc(e))])
    IN  /\ c.pc \in {"add", "raised"} => c.adds = <<>>
        /\ c.pc = "add" => Len(c.chunks) = before(n + 1)
        /\ c.pc \in {"return", "returned"} =>
              /\ Len(c.adds) = 1
              /\ Len(c.adds[1].texts) = before(n + 1)
              /\ Len(c.adds[1].metadatas) = before(n + 1)
              /\ \A d \in 1..n : \A j \in 1..Len(doc(d)) :
                    /\ c.adds[1].texts[before(d) + j] = doc(d)[j]
                    /\ c.adds[1].metadatas[before(d) + j]
                           = [source |-> srcs[d], chunk_index |-> j - 1]
        /\ c.pc = "returned" => c.result = Returned(Len(c.adds[1].texts))

C15_Witness ==
    /\ ingestion.pc = "returned" /\ Len(ingestion.knowledge_texts) = 2
    /\ Len(ingestion.adds) = 1 /\ Len(ingestion.adds[1].metadatas) = 3
    /\ Len(_collection) = 4
    /\ [i \in 1..3 |-> ingestion.adds[1].metadatas[i].chunk_index] = <<0, 1, 0>>
    /\ ingestion.adds[1].metadatas[2].source # ingestion.adds[1].metadatas[3].source
    /\ ingestion.result = Returned(3)

\* --------------------------------------------- ingestion, then retrieval
\* A process ingests documents into its store, of either backend, and then
\* searches it with the texts it ingested and with the queries built from verdicts
\* the document lists ingest_knowledge is called with: the two procedures in
\* either order, and one of the short documents alone
DocumentBatches ==
    {<<DocClean, DocElectrical>>, <<DocElectrical, DocClean>>, <<DocUpper>>, <<DocLower>>}

\* the texts of the chunks the store of the process holds
HeldTexts ==
    IF backend = "faiss" THEN {_docs[i].text : i \in 1..Len(_docs)}
    ELSE {_collection[i].document : i \in 1..Len(_collection)}

\* ingest.py:10-44 on the store of the process, the chunk sizes left at their
\* defaults; the documents are new to the store
IngestDocuments ==
    \E docs \in DocumentBatches :
        LET knowledge_texts == [i \in 1..Len(docs) |-> docs[i].text]
            sources == [i \in 1..Len(docs) |-> docs[i].source]
            cs == AllChunks(knowledge_texts, sources)
            texts == Texts(cs)
            metadatas == Some(Metadatas(cs))
            flat == FaissAddTexts(_index, _docs, texts, metadatas).value
        IN  /\ Held + Len(cs) <= MaxDocs
            /\ \A i \in 1..Len(docs) : docs[i].text \notin HeldTexts
            /\ IF backend = "faiss"
               THEN /\ _index' = flat[1] /\ _docs' = flat[2]
                    /\ disk' = IF texts = <<>> THEN disk ELSE FaissPersist(flat[1], flat[2], disk)
                    /\ UNCHANGED _collection
               ELSE /\ _collection' = ChromaAddTexts(_collection, texts, metadatas).value
                    /\ UNCHANGED <<_docs, _index, disk>>
            /\ req' = AddRequest(Held, texts, metadatas, AddEmbeds(texts, metadatas))
            /\ retrieved' = Returned(<<>>)
            /\ context' = NoContext
            /\ UNCHANGED backend

\* store.similarity_search(query, k) with the text of a stored chunk as the query
SearchDocumentText ==
    /\ \E query \in HeldTexts, k \in 1..MaxK :
         /\ \E got \in SimilaritySearch(query, k) :
              /\ req' = SearchRequest(query, k, Held, got.raw)
              /\ retrieved' = got.out
    /\ context' = NoContext
    /\ UNCHANGED <<_collection, _docs, _index, disk, backend>>

\* the chunks the store holds, as <<text, metadata, vector>>
Stored ==
    IF backend = "faiss"
    THEN [i \in 1..Len(_docs) |-> <<_docs[i].text, _docs[i].metadata, _index.items[i]>>]
    ELSE [i \in 1..Len(_collection) |->
             <<_collection[i].document, _collection[i].metadata, _collection[i].embedding>>]

\* the chunk ingest_knowledge makes of a document that fits one window
ChunkOf(d) == [text |-> d.text, metadata |-> [source |-> d.source, chunk_index |-> 0]]
HoldsChunk(i, d) == Stored[i][1] = d.text /\ Stored[i][2] = ChunkOf(d).metadata

\* C25: on a store that holds the chunks of sop_clean.txt and sop_electrical.txt
\* and nothing else, query_rag with the Electrical-damage verdict ranks the chunk
\* of sop_electrical.txt first and strictly above the chunk of sop_clean.txt, and
\* the context it returns names sop_electrical.txt.
C25_ElectricalRankedFirst ==
    (/\ context.by = "query_rag"
     /\ context.query = BuildQueryFromMlOutput(VerdictElectrical)
     /\ Len(Stored) = 2
     /\ \E i, j \in 1..2 : HoldsChunk(i, DocClean) /\ HoldsChunk(j, DocElectrical))
        => /\ context.raised = "none"
           /\ Len(context.chunks) = Min(req.k, 2)
           /\ context.chunks[1].text = DocElectrical.text
           /\ context.chunks[1].metadata = ChunkOf(DocElectrical).metadata
           /\ Len(context.chunks) = 2 =>
                  /\ context.chunks[2].text = DocClean.text
                  /\ context.chunks[2].metadata = ChunkOf(DocClean).metadata
                  /\ context.chunks[1].score > context.chunks[2].score
           /\ Occurs(Str(DocElectrical.source), context.text) # {}

C25_Witness ==
    /\ context.by = "query_rag" /\ context.query = BuildQueryFromMlOutput(VerdictElectrical)
    /\ Len(Stored) = 2 /\ HoldsChunk(1, DocClean) /\ HoldsChunk(2, DocElectrical)
    /\ req.k = MaxK /\ Len(context.chunks) = 2
    /\ context.chunks[1].text = DocElectrical.text
    /\ Occurs("source=sop_electrical.txt", context.text) # {}

\* the document a stored chunk was made of
DocumentOf(i) == CHOOSE d \in ScenarioDocuments : d.text = Stored[i][1]
\* the score the store gives the stored chunk i for the query of the last search
ScoreOf(i) ==
    LET q == EmbedText(req.query)
    IN  IF backend = "faiss" THEN InnerProduct(q, Stored[i][3])
        ELSE ChromaScore(L2Distance(q, Stored[i][3]))
\* the last call searched for the text of the stored chunk i
SearchedFor(i) == Searched /\ context.by = "none" /\ req.query = Stored[i][1]
\* the results hold the chunk of document d, tagged as it was ingested, and no
\* result has a higher score
ReturnedBest(d) ==
    \E n \in 1..Len(Results) :
        /\ Results[n].text = d.text
        /\ Results[n].metadata = ChunkOf(d).metadata
        /\ \A m \in 1..Len(Results) : Results[m].score <= Results[n].score

MetadatasMismatch(r) ==
    r.op = "add_texts" /\ r.metadatas.given /\ Len(r.metadatas.items) # Len(r.texts)
\* the step is a call of ingest_knowledge with a sources list of another length
\* than knowledge_texts
SourcesMismatch ==
    /\ ingestion.pc = "idle" /\ ingestion'.pc # "idle"
    /\ ingestion'.sources.given
    /\ Len(ingestion'.sources.items) # Len(ingestion'.knowledge_texts)

\* the call raised ValueError, having embedded nothing and left the chunk list,
\* the index, the collection and the files as they were
RejectedAdd ==
    /\ retrieved'.raised = "ValueError" /\ req'.embeds = 0
    /\ UNCHANGED <<_collection, _docs, _index, disk>>
RejectedIngest ==
    /\ ingestion'.pc = "raised" /\ ingestion'.result = Raised("ValueError", 0)
    /\ ingestion'.adds = <<>>
    /\ UNCHANGED storeVars

\* C30 as stated: every add_texts call whose metadatas list has another length
\* than texts, and every ingest_knowledge call whose sources list has another
\* length than knowledge_texts, raises ValueError and leaves the store and its
\* files unchanged.
C30_MismatchRaises ==
    [][/\ MetadatasMismatch(req') => RejectedAdd
       /\ SourcesMismatch => RejectedIngest]_<<storeVars, ingestionVars>>

\* C30 amended: so does add_texts when texts is not empty, and ingest_knowledge
\* always; add_texts on an empty texts list returns without raising whatever
\* metadatas holds, and changes nothing either.
C30_MismatchRaisesUnlessEmpty ==
    [][/\ (MetadatasMismatch(req') /\ req'.texts # <<>>) => RejectedAdd
       /\ (MetadatasMismatch(req') /\ req'.texts = <<>>) =>
              /\ retrieved'.raised = "none" /\ req'.embeds = 0
              /\ UNCHANGED <<_collection, _docs, _index, disk>>
       /\ SourcesMismatch => RejectedIngest]_<<storeVars, ingestionVars>>

C30_Witness ==
    /\ MetadatasMismatch(req) /\ req.texts # <<>> /\ req.held >= 1
    /\ retrieved.raised = "ValueError"
    /\ Len(_collection) = req.held
    /\ ingestion.pc = "raised" /\ ingestion.sources.given
    /\ Len(ingestion.sources.items) = 1 /\ Len(ingestion.knowledge_texts) = 2

\* ------------------------------------------------------------- start-up
\* A process opens a knowledge base that an earlier process persisted, with an
\* Embedding Provider of its own, and then answers searches
OtherDim == 768    \* the one other dimension tried: a provider built as EmbeddingModel(dim=768)
Dims == {Dim, OtherDim}

VARIABLE
    boot       \* the process: its backend, the dimension of its provider, the
               \* persisted knowledge base and its dimension, what it loaded, and
               \* what its last search gave back

bootVars == <<boot>>

\* embeddings.py:34 for a provider of dimension dim
BucketIn(tok, dim) ==
    LET h == TokenHash(tok, <<0, 0>>)
    IN  ((h[1] % dim) * (HalfWord % dim) + h[2]) % dim

\* embeddings.py:20-39 for a provider of dimension dim, on one text
EmbeddingIn(t, dim) ==
    IF t = <<>> THEN {} ELSE
    LET toks == FindTokens(t)
        idx == Tuple([n \in 1..Len(toks) |-> BucketIn(toks[n], dim)])
        hit == Ascending({idx[n] : n \in 1..Len(toks)})
        row == Tuple([j \in 1..Len(hit) |->
                         <<hit[j], Cardinality({n \in 1..Len(toks) : idx[n] = hit[j]})>>])
    IN  Normalize(row, RowNorm(row))

\* the knowledge base a process with a provider of dimension d persisted
Persisted(texts, d) ==
    [i \in 1..Len(texts) |->
        [document |-> texts[i], metadata |-> Tagged(texts)[i],
         embedding |-> EmbeddingIn(texts[i], d)]]

KnowledgeBases == UNION {[1..n -> SampleTexts \ {<<>>}] : n \in 1..2}

NotBooted ==
    [backend |-> "chroma", dim |-> Dim, d |-> Dim, persisted |-> <<>>, pc |-> "closed",
     loaded |-> <<>>, query |-> <<>>, k |-> 0, out |-> Returned(<<>>)]
BootIdle == boot = NotBooted

BootInit ==
    \E b \in {"faiss", "chroma"}, dim \in Dims, d \in Dims, texts \in KnowledgeBases :
        boot = [NotBooted EXCEPT !.backend = b, !.dim = dim, !.d = d,
                                 !.persisted = Persisted(texts, d)]

\* faiss_store.py:24-46 and chroma_store.py:22-35: the constructor loads what the
\* directory holds; scripts/query_example.py searches on the store it has built,
\* backend/main.py:496-497 calls ensure_ingested first
BootOpen ==
    /\ boot.pc = "closed"
    /\ boot' = [boot EXCEPT !.loaded = boot.persisted,
                            !.pc = IF boot.backend = "faiss" THEN "serving" ELSE "opened"]

\* backend/rag.py:107-115 on a collection that holds chunks: count > 0, return
BootEnsureIngested ==
    /\ boot.pc = "opened"
    /\ Len(boot.loaded) > 0
    /\ boot' = [boot EXCEPT !.pc = "serving"]

\* faiss_store.py:78-91 and chroma_store.py:55-72 on the loaded knowledge base:
\* Index.search asserts that the query has the dimension of the index,
\* Collection.query raises InvalidDimensionException
BootSimilaritySearch(query, k) ==
    LET q == EmbeddingIn(query, boot.dim)
        docs == [i \in 1..Len(boot.loaded) |->
                    [text |-> boot.loaded[i].document, metadata |-> boot.loaded[i].metadata]]
        vectors == [i \in 1..Len(boot.loaded) |-> boot.loaded[i].embedding]
    IN  IF boot.backend = "faiss"
        THEN IF boot.dim # boot.d THEN {Raised("AssertionError", <<>>)}
             ELSE {FaissCollect(pairs, docs) : pairs \in FaissIndexSearch(vectors, q, k)}
        ELSE IF boot.dim # boot.d THEN {Raised("InvalidDimensionException", <<>>)}
             ELSE {Returned(ChromaCollect(rows)) : rows \in ChromaQuery(boot.loaded, q, k)}

BootSearch ==
    /\ boot.pc = "serving"
    /\ \E query \in Queries, k \in 1..MaxK :
         \E out \in BootSimilaritySearch(query, k) :
             boot' = [boot EXCEPT !.query = query, !.k = k, !.out = out]

\* C22: a process whose provider has another dimension than the knowledge base it
\* opened never comes to serve searches: start-up ends in a configuration error.
C22_MismatchFailsAtStartup ==
    boot.pc = "serving" => boot.dim = boot.d

\* ------------------------------------------------- searches side by side
\* Threads of one process call similarity_search on the store while no add_texts runs
Readers == {"r1", "r2"}
ReadQueries == {<<"a">>, Repeated}

VARIABLE
    readers    \* per thread: where its similarity_search stands, its arguments,
               \* the query vector, what the library answered, what it returns

readVars == <<readers>>

NoSearch ==
    [pc |-> "idle", query |-> <<>>, k |-> 0, q |-> {}, raw |-> <<>>, out |-> Returned(<<>>)]
ReadIdle == readers = [r \in Readers |-> NoSearch]

\* faiss_store.py:79-82 and chroma_store.py:56: the early return of the flat
\* store, or the query is embedded
SearchEnter(r) ==
    /\ readers[r].pc \in {"idle", "done"}
    /\ \E query \in ReadQueries, k \in 1..MaxK :
         readers' = [readers EXCEPT ![r] =
             IF backend = "faiss" /\ (_index = None \/ _docs = <<>>)
             THEN [NoSearch EXCEPT !.pc = "done", !.query = query, !.k = k]
             ELSE [NoSearch EXCEPT !.pc = "rank", !.query = query, !.k = k,
                                   !.q = EmbedTexts(<<query>>)[1]]]
    /\ UNCHANGED storeVars

\* faiss_store.py:83 and chroma_store.py:57-61: the library ranks
SearchRank(r) ==
    /\ readers[r].pc = "rank"
    /\ \E raw \in IF backend = "faiss"
                  THEN FaissIndexSearch(_index.items, readers[r].q, readers[r].k)
                  ELSE ChromaQuery(_collection, readers[r].q, readers[r].k) :
         readers' = [readers EXCEPT ![r].pc = "collect", ![r].raw = raw]
    /\ UNCHANGED storeVars

\* the loop of faiss_store.py:85-91 taking each entry it reads out of _docs
SearchCollectPopping(r) ==
    /\ readers[r].pc = "collect"
    /\ backend = "faiss"
    /\ readers' = [readers EXCEPT ![r].pc = "done",
                                  ![r].out = FaissCollect(readers[r].raw, _docs)]
    /\ _docs' = SelectSeq(_docs, LAMBDA doc :
                              \A i \in 1..Len(readers[r].raw) :
                                  \/ readers[r].raw[i][2] < 0
                                  \/ readers[r].raw[i][2] >= Len(_docs)
                                  \/ _docs[readers[r].raw[i][2] + 1] # doc)
    /\ UNCHANGED <<_collection, _index, disk, backend, req, retrieved>>
\* faiss_store.py:85-91 and chroma_store.py:63-72: the chunks are built
SearchCollect(r) ==
    /\ readers[r].pc = "collect"
    /\ readers' = [readers EXCEPT ![r].pc = "done",
                                  ![r].out = IF backend = "faiss"
                                             THEN FaissCollect(readers[r].raw, _docs)
                                             ELSE Returned(ChromaCollect(readers[r].raw))]
    /\ UNCHANGED storeVars

\* a store that earlier add_texts calls filled
ReadInit ==
    /\ readers = [r \in Readers |-> NoSearch]
    /\ backend \in {"faiss", "chroma"}
    /\ req = NoRequest /\ retrieved = Returned(<<>>)
    /\ \E texts \in Batches :
         LET flat == FaissAddTexts(None, <<>>, texts, Some(Tagged(texts))).value
         IN  IF backend = "faiss"
             THEN /\ _index = flat[1] /\ _docs = flat[2]
                  /\ disk = FaissPersist(flat[1], flat[2], NoFiles)
                  /\ _collection = <<>>
             ELSE /\ _index = None /\ _docs = <<>> /\ disk = NoFiles
                  /\ _collection = ChromaAddTexts(<<>>, texts, Some(Tagged(texts))).value

\* what the search of thread r may return when it runs alone on the store
Alone(r) == {got.out : got \in SimilaritySearch(readers[r].query, readers[r].k)}

\* C29: no step of a similarity_search changes the chunk list, the index, the
\* collection or the files, and a search that ran beside another returns what it
\* may return when run alone.
C29_SearchLeavesStore ==
    /\ [][UNCHANGED <<_collection, _docs, _index, disk>>]_readVars
    /\ [](\A r \in Readers : readers[r].pc = "done" => readers[r].out \in Alone(r))

C29_Witness ==
    /\ Len(_docs) = 2 /\ disk.docs = Some(_docs)
    /\ readers["r1"].pc = "done" /\ readers["r2"].pc = "done"
    /\ readers["r1"].query # readers["r2"].query
    /\ Len(readers["r1"].out.value) = 2 /\ Len(readers["r2"].out.value) = 1

\* ------------------------------------------------------ ensure_ingested
MaxCalls == 1      \* invocations of ensure_ingested per worker
MaxFiles == 3      \* knowledge files in the directory

Workers == {"w1", "w2"}

VARIABLES
    kdir,      \* KNOWLEDGE_DIR: [exists, files], files in sorted order
    libs,      \* HAS_PDFPLUMBER and HAS_PYPDF
    pc,        \* per worker: "idle", "count", "read", "add", "verify", "returned", "raised"
    pending,   \* per worker: the add_texts calls ingest_knowledge has still to make
    err,       \* per worker: the exception the last invocation raised, or "none"
    nCalls,    \* per worker: invocations started
    seen       \* per worker, for the running invocation: the size of the collection
               \* when it started, the files it read, the add_texts calls it made,
               \* whether every count() it made succeeded, whether the last one did

ingestVars == <<kdir, libs, pc, pending, err, nCalls, seen>>

PlaceholderHead == <<"[", "P", "D", "F", " ", "f", "i", "l", "e", ":", " ">>
PlaceholderTail == <<" ", "-", " ", "c", "o", "n", "t", "e", "n", "t", " ", "e", "x", "t", "r", "a", "c", "t", "i", "o", "n", " ", "n", "o", "t", " ", "a", "v", "a", "i", "l", "a", "b", "l", "e", "]", "\n">>

\* rag.py:25-51
ExtractTextFromPdf(f) ==
    LET plumbed == SelectSeq(f.pages, LAMBDA pg : pg # <<>>)
        Lines(pages) == JoinLines(pages) \o (IF pages = <<>> THEN <<>> ELSE <<"\n">>)
    IN  IF libs.pdfplumber /\ ~f.corrupt THEN Lines(plumbed)
        ELSE IF libs.pypdf /\ ~f.corrupt THEN Lines(f.pages)
        ELSE PlaceholderHead \o f.name \o PlaceholderTail

\* rag.py:54-62; read_text raises when it cannot decode the file
ExtractTextFromKnowledgeFile(f) ==
    IF f.kind = "pdf" THEN Returned(ExtractTextFromPdf(f))
    ELSE IF f.decodable THEN Returned(f.text) ELSE Raised("UnicodeDecodeError", <<>>)

\* rag.py:125-134: the loop over knowledge_files; stops at the first file that raises
RECURSIVE ReadFiles(_, _)
ReadFiles(files, acc) ==
    IF files = <<>> THEN acc
    ELSE LET f == Head(files)
             content == ExtractTextFromKnowledgeFile(f)
             read == [acc EXCEPT !.nread = @ + 1]
         IN  IF content.raised # "none"
             THEN [read EXCEPT !.raised = content.raised]
             ELSE IF Strip(content.value) # <<>>
             THEN ReadFiles(Tail(files), [read EXCEPT !.texts = Append(@, content.value),
                                                      !.sources = Append(@, f.name)])
             ELSE ReadFiles(Tail(files), read)

\* rag.py:117-139 up to the call of ingest_knowledge: what the invocation read,
\* and the exception it raises before ingesting, if any
ReadKnowledge ==
    LET none == [raised |-> "none", texts |-> <<>>, sources |-> <<>>, nread |-> 0]
        got == ReadFiles(kdir.files, none)
    IN  IF ~kdir.exists \/ kdir.files = <<>> THEN [none EXCEPT !.raised = "RuntimeError"]
        ELSE IF got.raised = "none" /\ got.texts = <<>>
        THEN [got EXCEPT !.raised = "RuntimeError"]
        ELSE got

\* rag.py:114: with >= for >, then as written
AlreadyIngestedOrEmpty(n) == n >= 0
AlreadyIngested(n) == n > 0
\* rag.py:146
StillEmpty(n) == n <= 0

NewSeen == [startCount |-> Len(_collection), filesRead |-> 0, addCalls |-> 0, readsOk |-> TRUE, lastOk |-> TRUE]

\* an invocation of ensure_ingested(store) begins (main.py:495-497 at startup)
Call(w) ==
    /\ pc[w] \in {"idle", "returned", "raised"}
    /\ nCalls[w] < MaxCalls
    /\ pc' = [pc EXCEPT ![w] = "count"]
    /\ nCalls' = [nCalls EXCEPT ![w] = @ + 1]
    /\ seen' = [seen EXCEPT ![w] = NewSeen]
    /\ err' = [err EXCEPT ![w] = "none"]
    /\ UNCHANGED <<kdir, libs, pending, storeVars>>

\* rag.py:109-115: count() answers, or raises and the count is taken to be 0
CheckCount(w) ==
    /\ pc[w] = "count"
    /\ \E ok \in BOOLEAN :
         LET count == IF ok THEN Len(_collection) ELSE 0
         IN  /\ seen' = [seen EXCEPT ![w].readsOk = @ /\ ok, ![w].lastOk = ok]
             /\ pc' = [pc EXCEPT ![w] = IF AlreadyIngested(count) THEN "returned" ELSE "read"]
    /\ UNCHANGED <<kdir, libs, pending, err, nCalls, storeVars>>

\* rag.py:117-139 and ingest.py:29-37: the directory is read and the chunks are cut
Read(w) ==
    /\ pc[w] = "read"
    /\ LET got == ReadKnowledge
       IN  /\ seen' = [seen EXCEPT ![w].filesRead = got.nread]
           /\ IF got.raised # "none"
              THEN /\ pc' = [pc EXCEPT ![w] = "raised"]
                   /\ err' = [err EXCEPT ![w] = got.raised]
                   /\ UNCHANGED pending
              ELSE /\ pc' = [pc EXCEPT ![w] = "add"]
                   /\ pending' = [pending EXCEPT
                                     ![w] = IngestAddCalls(AllChunks(got.texts, got.sources))]
                   /\ UNCHANGED err
    /\ UNCHANGED <<kdir, libs, nCalls, storeVars>>

\* ingest.py:39-42: store.add_texts on the next batch
Add(w) ==
    /\ pc[w] = "add"
    /\ pending[w] # <<>>
    /\ LET cs == Head(pending[w])
       IN  /\ _collection' = ChromaAddTexts(_collection, Texts(cs), Some(Metadatas(cs))).value
           /\ req' = AddRequest(Len(_collection), Texts(cs), Some(Metadatas(cs)),
                                AddEmbeds(Texts(cs), Some(Metadatas(cs))))
    /\ pending' = [pending EXCEPT ![w] = Tail(@)]
    /\ seen' = [seen EXCEPT ![w].addCalls = @ + 1]
    /\ pc' = [pc EXCEPT ![w] = IF Tail(pending[w]) = <<>> THEN "verify" ELSE "add"]
    /\ UNCHANGED <<kdir, libs, err, nCalls, _docs, _index, disk, backend, retrieved>>

\* rag.py:141-147
Verify(w) ==
    /\ pc[w] = "verify"
    /\ \E ok \in BOOLEAN :
         LET new_count == IF ok THEN Len(_collection) ELSE 0
         IN  /\ seen' = [seen EXCEPT ![w].readsOk = @ /\ ok, ![w].lastOk = ok]
             /\ pc' = [pc EXCEPT ![w] = IF StillEmpty(new_count) THEN "raised" ELSE "returned"]
             /\ err' = [err EXCEPT ![w] = IF StillEmpty(new_count) THEN "RuntimeError" ELSE "none"]
    /\ UNCHANGED <<kdir, libs, pending, nCalls, storeVars>>

\* the knowledge files a directory may hold, in sorted order
FileA == [name |-> <<"a", ".", "t", "x", "t">>, kind |-> "txt", decodable |-> TRUE, text |-> <<"a", " ", "b">>]
FileB == [name |-> <<"b", ".", "t", "x", "t">>, kind |-> "txt", decodable |-> TRUE, text |-> <<" ", "\n">>]
FileC == [name |-> <<"c", ".", "p", "d", "f">>, kind |-> "pdf", corrupt |-> FALSE, pages |-> <<<<"b">>, <<>>>>]
FileD == [name |-> <<"d", ".", "p", "d", "f">>, kind |-> "pdf", corrupt |-> TRUE, pages |-> <<>>]
FileE == [name |-> <<"e", ".", "t", "x", "t">>, kind |-> "txt", decodable |-> FALSE, text |-> <<>>]
KnowledgeFiles == <<FileA, FileB, FileC, FileD, FileE>>

Directories ==
    {[exists |-> FALSE, files |-> <<>>]} \cup
    {[exists |-> TRUE,
      files |-> SelectSeq(KnowledgeFiles, LAMBDA f : f.name \in names)] :
        names \in {ns \in SUBSET {KnowledgeFiles[i].name : i \in 1..Len(KnowledgeFiles)} :
                       Cardinality(ns) <= MaxFiles}}

\* what one ingestion of the directory stores: nothing when it raises before adding
IngestedSet ==
    LET got == ReadKnowledge
    IN  IF got.raised # "none" THEN <<>> ELSE AllChunks(got.texts, got.sources)

IngestIdle ==
    /\ kdir = [exists |-> FALSE, files |-> <<>>]
    /\ libs = [pdfplumber |-> FALSE, pypdf |-> FALSE]
    /\ pc = [w \in Workers |-> "idle"]
    /\ pending = [w \in Workers |-> <<>>]
    /\ err = [w \in Workers |-> "none"]
    /\ nCalls = [w \in Workers |-> 0]
    /\ seen = [w \in Workers |-> [startCount |-> 0, filesRead |-> 0, addCalls |-> 0,
                                  readsOk |-> TRUE, lastOk |-> TRUE]]

\* the collection is new, or holds what an earlier run ingested from the directory
\* the collection an earlier process left: the chunks of IngestedSet
IngestedBefore ==
    ChromaAddTexts(<<>>, Texts(IngestedSet), Some(Metadatas(IngestedSet))).value

IngestInit ==
    /\ kdir \in Directories
    /\ libs \in [pdfplumber : BOOLEAN, pypdf : BOOLEAN]
    /\ _collection \in {<<>>, IngestedBefore}
    /\ _docs = <<>> /\ _index = None /\ disk = NoFiles
    /\ backend = "chroma" /\ req = NoRequest /\ retrieved = Returned(<<>>)
    /\ pc = [w \in Workers |-> "idle"]
    /\ pending = [w \in Workers |-> <<>>]
    /\ err = [w \in Workers |-> "none"]
    /\ nCalls = [w \in Workers |-> 0]
    /\ seen = [w \in Workers |-> [startCount |-> 0, filesRead |-> 0, addCalls |-> 0,
                                  readsOk |-> TRUE, lastOk |-> TRUE]]

vars == <<chunkVars, storeVars, formatVars, ingestVars, flatVars, ingestionVars, embedVars, queryVars,
          bootVars, readVars>>

\* ------------------------------------------------- ensure_ingested properties
Finished(w) == pc[w] \in {"returned", "raised"}

\* every chunk of cs is held by the collection, as many times as cs holds it
HoldsAll(coll, cs) ==
    \A i \in 1..Len(cs) :
        Cardinality({j \in 1..Len(coll) :
                        coll[j].document = cs[i].text /\ coll[j].metadata = cs[i].metadata})
            >= Cardinality({j \in 1..Len(cs) : cs[j] = cs[i]})

\* C2: ensure_ingested returns normally only when the collection holds at least
\* one chunk and the count it last read could be read; otherwise it raises.
C2_ReturnsOnlyWhenPopulated ==
    \A w \in Workers :
        /\ pc[w] = "returned" => (Len(_collection) >= 1 /\ seen[w].lastOk)
        /\ (Finished(w) /\ Len(_collection) = 0) => (pc[w] = "raised" /\ err[w] # "none")

C2_Witness ==
    \E w, v \in Workers :
        /\ pc[w] = "returned" /\ seen[w].addCalls = 1 /\ seen[w].startCount = 0
        /\ pc[v] = "raised" /\ seen[v].addCalls = 1 /\ ~seen[v].lastOk

\* C3: an invocation that starts on a collection holding at least one chunk reads
\* no knowledge file and calls add_texts zero times.
C3_PopulatedMeansNoIngestion ==
    \A w \in Workers :
        seen[w].startCount >= 1 => (seen[w].filesRead = 0 /\ seen[w].addCalls = 0)

\* C4: when both workers invoke ensure_ingested on the empty collection and every
\* count() succeeds, the files are ingested once: the final count is that of a
\* single ingestion.
C4_ConcurrentIngestOnce ==
    (\A w \in Workers : pc[w] = "returned" /\ seen[w].startCount = 0 /\ seen[w].readsOk)
        => Len(_collection) = Len(IngestedSet)

\* C5: whenever an invocation has finished, the collection holds zero chunks or
\* every chunk of every knowledge document that was read.
C5_AllOrNothing ==
    (\E w \in Workers : Finished(w))
        => (Len(_collection) = 0 \/ HoldsAll(_collection, IngestedSet))

C5_Witness ==
    /\ \E w \in Workers : pc[w] = "returned" /\ seen[w].addCalls = 1
    /\ Len(IngestedSet) >= 2
    /\ HoldsAll(_collection, IngestedSet)
    /\ \E v \in Workers : pc[v] = "returned" /\ seen[v].addCalls = 0 /\ seen[v].filesRead = 0

\* a knowledge file whose text cannot be decoded, or cannot be extracted
FailsToRead(f) ==
    IF f.kind = "pdf" THEN f.corrupt \/ (~libs.pdfplumber /\ ~libs.pypdf)
    ELSE ~f.decodable
\* a knowledge file that is read and holds more than whitespace
YieldsText(f) ==
    /\ ~FailsToRead(f)
    /\ Strip(ExtractTextFromKnowledgeFile(f).value) # <<>>
KnowledgeFileSet == {kdir.files[i] : i \in 1..Len(kdir.files)}

\* C23: an invocation that starts on the empty collection, in a directory with a
\* file that cannot be read and another that yields text, returns normally, and
\* the collection holds no chunk whose source is the file that could not be read.
C23_FailedFileIsSkipped ==
    \A w \in Workers : \A f \in KnowledgeFileSet :
        (/\ Finished(w) /\ seen[w].startCount = 0 /\ seen[w].readsOk
         /\ FailsToRead(f) /\ \E g \in KnowledgeFileSet : YieldsText(g))
            => /\ pc[w] = "returned"
               /\ \A j \in 1..Len(_collection) : _collection[j].metadata.source # f.name

\* C24: an invocation on the empty collection whose directory is missing, holds
\* no knowledge file or holds no file that yields text raises RuntimeError, and
\* the collection stays empty.
C24_NothingToIngestRaises ==
    \A w \in Workers :
        (/\ Finished(w) /\ seen[w].startCount = 0
         /\ \A g \in KnowledgeFileSet : ~YieldsText(g))
            => /\ pc[w] = "raised" /\ err[w] = "RuntimeError"
               /\ _collection = <<>>

\* ---------------------------------------------------------- the systems
\* chunk_text on every short text
InitChunk == ChunkInit /\ StoresIdle /\ FormatIdle /\ IngestIdle /\ FlatIdle /\ IngestionIdle /\ EmbedIdle /\ QueryIdle
    /\ BootIdle /\ ReadIdle
ChunkNext ==
    \/ ChunkEnter /\ UNCHANGED <<storeVars, formatVars, ingestVars, flatVars, ingestionVars, embedVars, queryVars, bootVars, readVars>>
    \/ ChunkIter /\ UNCHANGED <<storeVars, formatVars, ingestVars, flatVars, ingestionVars, embedVars, queryVars, bootVars, readVars>>
SpecChunk == InitChunk /\ [][ChunkNext]_vars

\* the two stores under add_texts and similarity_search
InitStores == StoreInit /\ ChunkIdle /\ FormatIdle /\ IngestIdle /\ FlatIdle /\ IngestionIdle /\ EmbedIdle /\ QueryIdle
    /\ BootIdle /\ ReadIdle
StoreNext ==
    \/ FaissAdd /\ UNCHANGED <<chunkVars, formatVars, ingestVars, flatVars, ingestionVars, embedVars, queryVars, bootVars, readVars>>
    \/ ChromaAdd /\ UNCHANGED <<chunkVars, formatVars, ingestVars, flatVars, ingestionVars, embedVars, queryVars, bootVars, readVars>>
    \/ FaissSearch /\ UNCHANGED <<chunkVars, formatVars, ingestVars, flatVars, ingestionVars, embedVars, queryVars, bootVars, readVars>>
    \/ ChromaSearch /\ UNCHANGED <<chunkVars, formatVars, ingestVars, flatVars, ingestionVars, embedVars, queryVars, bootVars, readVars>>
Spec == InitStores /\ [][StoreNext]_vars

\* retrieval calls on a store that is being filled
FormatNext ==
    \/ FaissAdd /\ context' = NoContext /\ UNCHANGED <<chunkVars, ingestVars, flatVars, ingestionVars, embedVars, queryVars, bootVars, readVars>>
    \/ ChromaAdd /\ context' = NoContext /\ UNCHANGED <<chunkVars, ingestVars, flatVars, ingestionVars, embedVars, queryVars, bootVars, readVars>>
    \/ QueryRag /\ UNCHANGED <<chunkVars, ingestVars, flatVars, ingestionVars, embedVars, queryVars, bootVars, readVars>>
    \/ RetrieveContextFromModelOutput /\ UNCHANGED <<chunkVars, ingestVars, flatVars, ingestionVars, embedVars, queryVars, bootVars, readVars>>
SpecFormat == InitStores /\ [][FormatNext]_vars

\* the ingestion guard, two workers starting up against one collection
InitIngest == IngestInit /\ ChunkIdle /\ FormatIdle /\ FlatIdle /\ IngestionIdle /\ EmbedIdle /\ QueryIdle
    /\ BootIdle /\ ReadIdle
IngestNext ==
    \/ \E w \in Workers : Call(w) /\ UNCHANGED <<chunkVars, formatVars, flatVars, ingestionVars, embedVars, queryVars, bootVars, readVars>>
    \/ \E w \in Workers : CheckCount(w) /\ UNCHANGED <<chunkVars, formatVars, flatVars, ingestionVars, embedVars, queryVars, bootVars, readVars>>
    \/ \E w \in Workers : Read(w) /\ UNCHANGED <<chunkVars, formatVars, flatVars, ingestionVars, embedVars, queryVars, bootVars, readVars>>
    \/ \E w \in Workers : Add(w) /\ UNCHANGED <<chunkVars, formatVars, flatVars, ingestionVars, embedVars, queryVars, bootVars, readVars>>
    \/ \E w \in Workers : Verify(w) /\ UNCHANGED <<chunkVars, formatVars, flatVars, ingestionVars, embedVars, queryVars, bootVars, readVars>>
SpecIngest == InitIngest /\ [][IngestNext]_vars

\* the flat store: one add_texts at a time, searches in between its steps, and
\* the process stopping and starting again at any step
InitFlat == FlatInit /\ ChunkIdle /\ FormatIdle /\ IngestIdle /\ IngestionIdle /\ EmbedIdle /\ QueryIdle
    /\ BootIdle /\ ReadIdle
FlatNext ==
    \/ AddTextsEnter /\ UNCHANGED <<chunkVars, formatVars, ingestVars, ingestionVars, embedVars, queryVars, bootVars, readVars>>
    \/ AppendDoc /\ UNCHANGED <<chunkVars, formatVars, ingestVars, ingestionVars, embedVars, queryVars, bootVars, readVars>>
    \/ WriteIndex /\ UNCHANGED <<chunkVars, formatVars, ingestVars, ingestionVars, embedVars, queryVars, bootVars, readVars>>
    \/ OpenDocs /\ UNCHANGED <<chunkVars, formatVars, ingestVars, ingestionVars, embedVars, queryVars, bootVars, readVars>>
    \/ WriteDoc /\ UNCHANGED <<chunkVars, formatVars, ingestVars, ingestionVars, embedVars, queryVars, bootVars, readVars>>
    \/ Reopen /\ UNCHANGED <<chunkVars, formatVars, ingestVars, ingestionVars, embedVars, queryVars, bootVars, readVars>>
    \/ FlatSearch /\ UNCHANGED <<chunkVars, formatVars, ingestVars, ingestionVars, embedVars, queryVars, bootVars, readVars>>
SpecFlat == InitFlat /\ [][FlatNext]_vars

\* one call of ingest_knowledge on a collection
InitIngestion == IngestionInit /\ ChunkIdle /\ FormatIdle /\ IngestIdle /\ FlatIdle /\ EmbedIdle /\ QueryIdle
    /\ BootIdle /\ ReadIdle
IngestionNext ==
    \/ IngestKnowledgeEnter /\ UNCHANGED <<chunkVars, formatVars, ingestVars, flatVars, embedVars, queryVars, bootVars, readVars>>
    \/ IngestKnowledgeAdd /\ UNCHANGED <<chunkVars, formatVars, ingestVars, flatVars, embedVars, queryVars, bootVars, readVars>>
    \/ IngestKnowledgeReturn /\ UNCHANGED <<chunkVars, formatVars, ingestVars, flatVars, embedVars, queryVars, bootVars, readVars>>
SpecIngestion == InitIngestion /\ [][IngestionNext]_vars

\* embed_texts called again and again, in one process after the other
InitEmbed == EmbedIdle /\ ChunkIdle /\ StoresIdle /\ FormatIdle /\ IngestIdle /\ FlatIdle /\ IngestionIdle /\ QueryIdle
    /\ BootIdle /\ ReadIdle
EmbedNext ==
    \/ EmbedCall /\ UNCHANGED <<chunkVars, storeVars, formatVars, ingestVars, flatVars, ingestionVars, queryVars, bootVars, readVars>>
    \/ EmbedRestart /\ UNCHANGED <<chunkVars, storeVars, formatVars, ingestVars, flatVars, ingestionVars, queryVars, bootVars, readVars>>
SpecEmbed == InitEmbed /\ [][EmbedNext]_vars

\* build_query_from_ml_output on every verdict
InitQuery ==
    /\ QueryInit /\ ChunkIdle /\ StoresIdle /\ FormatIdle /\ IngestIdle /\ FlatIdle
    /\ IngestionIdle /\ EmbedIdle /\ BootIdle /\ ReadIdle
QueryNext ==
    \/ BuildQuery /\ UNCHANGED <<chunkVars, storeVars, formatVars, ingestVars, flatVars, ingestionVars, embedVars, bootVars, readVars>>
SpecQuery == InitQuery /\ [][QueryNext]_vars

\* the two formatters, called on every short chunk list
InitFormatter ==
    /\ FormatIdle /\ ChunkIdle /\ StoresIdle /\ IngestIdle /\ FlatIdle /\ IngestionIdle
    /\ EmbedIdle /\ QueryIdle /\ BootIdle /\ ReadIdle
FormatterNext ==
    \/ FormatCanonical /\ UNCHANGED <<chunkVars, storeVars, ingestVars, flatVars, ingestionVars, embedVars, queryVars, bootVars, readVars>>
    \/ FormatLocal /\ UNCHANGED <<chunkVars, storeVars, ingestVars, flatVars, ingestionVars, embedVars, queryVars, bootVars, readVars>>
SpecFormatter == InitFormatter /\ [][FormatterNext]_vars

\* a process starting on a persisted knowledge base and answering searches
InitBoot ==
    /\ BootInit /\ ChunkIdle /\ StoresIdle /\ FormatIdle /\ IngestIdle /\ FlatIdle
    /\ IngestionIdle /\ EmbedIdle /\ QueryIdle /\ ReadIdle
BootNext ==
    \/ BootOpen /\ UNCHANGED <<chunkVars, storeVars, formatVars, ingestVars, flatVars, ingestionVars, embedVars, queryVars, readVars>>
    \/ BootEnsureIngested /\ UNCHANGED <<chunkVars, storeVars, formatVars, ingestVars, flatVars, ingestionVars, embedVars, queryVars, readVars>>
    \/ BootSearch /\ UNCHANGED <<chunkVars, storeVars, formatVars, ingestVars, flatVars, ingestionVars, embedVars, queryVars, readVars>>
SpecBoot == InitBoot /\ [][BootNext]_vars

\* two threads searching a filled store
InitSearch ==
    /\ ReadInit /\ ChunkIdle /\ FormatIdle /\ IngestIdle /\ FlatIdle
    /\ IngestionIdle /\ EmbedIdle /\ QueryIdle /\ BootIdle
SearchNext ==
    \/ \E r \in Readers : SearchEnter(r) /\ UNCHANGED <<chunkVars, formatVars, ingestVars, flatVars, ingestionVars, embedVars, queryVars, bootVars>>
    \/ \E r \in Readers : SearchRank(r) /\ UNCHANGED <<chunkVars, formatVars, ingestVars, flatVars, ingestionVars, embedVars, queryVars, bootVars>>
    \/ \E r \in Readers : SearchCollect(r) /\ UNCHANGED <<chunkVars, formatVars, ingestVars, flatVars, ingestionVars, embedVars, queryVars, bootVars>>
SpecSearch == InitSearch /\ [][SearchNext]_vars

\* add_texts calls on either store, and a call of ingest_knowledge between them
InitAdd ==
    /\ StoreInit /\ IngestionIdle /\ ChunkIdle /\ FormatIdle /\ IngestIdle /\ FlatIdle
    /\ EmbedIdle /\ QueryIdle /\ BootIdle /\ ReadIdle
Between == ingestion.pc \in {"idle", "raised", "returned"}
AddNext ==
    \/ Between /\ FaissAdd /\ UNCHANGED <<chunkVars, formatVars, ingestVars, flatVars, ingestionVars, embedVars, queryVars, bootVars, readVars>>
    \/ Between /\ ChromaAdd /\ UNCHANGED <<chunkVars, formatVars, ingestVars, flatVars, ingestionVars, embedVars, queryVars, bootVars, readVars>>
    \/ IngestKnowledgeEnter /\ UNCHANGED <<chunkVars, formatVars, ingestVars, flatVars, embedVars, queryVars, bootVars, readVars>>
    \/ IngestKnowledgeAdd /\ UNCHANGED <<chunkVars, formatVars, ingestVars, flatVars, embedVars, queryVars, bootVars, readVars>>
    \/ IngestKnowledgeReturn /\ UNCHANGED <<chunkVars, formatVars, ingestVars, flatVars, embedVars, queryVars, bootVars, readVars>>
SpecAdd == InitAdd /\ [][AddNext]_vars

\* documents ingested into either store, then searched
ScenarioNext ==
    \/ IngestDocuments /\ UNCHANGED <<chunkVars, ingestVars, flatVars, ingestionVars, embedVars, queryVars, bootVars, readVars>>
    \/ SearchDocumentText /\ UNCHANGED <<chunkVars, ingestVars, flatVars, ingestionVars, embedVars, queryVars, bootVars, readVars>>
    \/ QueryRagOn(ScenarioVerdicts) /\ UNCHANGED <<chunkVars, ingestVars, flatVars, ingestionVars, embedVars, queryVars, bootVars, readVars>>
SpecScenario == InitStores /\ [][ScenarioNext]_vars
====
